---- MODULE Spec2Model ----
(***************************************************************************)
(* Admission control and quota ledger of the chat backend:                 *)
(*   - handleAIChat (routes/ai.ts): quota check, provider call, increment  *)
(*   - license redemption (routes/license.ts)                              *)
(*   - rateLimit middleware and its wiring in createServer                 *)
(* Each handler is split at its await points, which are the only places    *)
(* where concurrent requests interleave.                                   *)
(***************************************************************************)
EXTENDS Integers, Sequences, FiniteSets, TLC

VARIABLES
    users,        \* Firestore collection "users": uid -> document
    apiKeySet,    \* process.env.OPENROUTER_API_KEY is configured
    pc,           \* chat request slot -> position in handleAIChat
    req,          \* chat request slot -> validated request body
    rd,           \* chat request slot -> locals messagesUsed / messagesLimit
    sent,         \* the response the last step sent, NoResp if it sent none
    completions,  \* number of successful provider completions so far
    writeFailed,  \* some userDocRef.update has rejected so far
    used0,        \* stored messagesUsed of u1 in the initial state
    licenses,     \* Firestore collection "licenses": key -> document
    redeem,       \* redemption attempt -> position, arguments, result
    redeem0,      \* licenses and messagesLimit values in the initial state
    now,          \* the clock (Date.now())
    rateStore,    \* limiter instance -> client address -> rate window
    admitted,     \* client address -> time -> requests admitted at that time
    gate,         \* what the middleware chain did with the last request
    dbReady,      \* isAdminInitialized(): the store handle is set up
    fbAdmin,      \* lib/firebase-admin.ts: adminDb, adminAuth, initialized, last call
    ipBans,       \* Firestore collection "ip_bans": document id -> ban record
    userIps,      \* Firestore collection "user_ips": document id -> link
    ipCall,       \* the IP-management call in flight: position and locals
    ipSent,       \* the response the last IP-management step sent
    touch,        \* concurrent handleUpdateUserIPLogin call -> position and locals
    accounts,     \* uid -> isAdmin flag and plan of the user document
    aiConfig,     \* Firestore documents settings/ai and settings/ai_config
    adminLogs,    \* Firestore collection "admin_logs", in order of writing
    adminCall,    \* the admin operation in flight: position and locals
    adminSent     \* the response the last admin or settings step sent

chatVars == <<users, apiKeySet, pc, req, rd, sent, completions, writeFailed,
              used0>>

redeemVars == <<licenses, redeem, redeem0>>

rateVars == <<now, rateStore, admitted, gate>>

ipVars == <<dbReady, fbAdmin, ipBans, userIps, ipCall, ipSent, touch>>

adminVars == <<accounts, aiConfig, adminLogs, adminCall, adminSent>>

vars == <<chatVars, redeemVars, rateVars, ipVars, adminVars>>

----------------------------------------------------------------------------
(* Bounds of the model *)

MaxInFlight == 2      \* k: chat requests of one user in flight at once
MaxCompletions == 5   \* no new chat request once this many completions were served

MaxRedeemers == 2     \* concurrent redemption attempts
RateW == 2            \* window length W of the limiter taken alone, in clock units
RateM == 2            \* budget M of the limiter taken alone
RateMaxTime == 4      \* last clock reading of the limiter taken alone
ClockStep == 30000    \* milliseconds between two clock readings of the server
GateTicks == 3        \* clock readings of the server in one behaviour
MaxBanDocs == 2       \* documents the ip_bans collection holds at most
BanMaxTime == 2       \* last clock reading of the ban list, in days
MaxLinkDocs == 3      \* documents the user_ips collection holds at most
LinkMaxTime == 1      \* last clock reading of the link table
MaxAdminCalls == 2    \* admin and configuration requests in one behaviour
MaxServed == 1        \* completions served behind the limiter in one behaviour
MaxTouchers == 2      \* concurrent handleUpdateUserIPLogin calls
MaxInits == 5         \* runs of the body of initializeFirebaseAdmin in one behaviour

(* Program constants *)

DefaultLimit == 10    \* userData.messagesLimit || 10
WindowMs == 60000     \* rateLimit(60000, ...)
GeneralMax == 100     \* rateLimit(60000, 100)
AdminMax == 10        \* rateLimit(60000, 10)

Reqs == 1..MaxInFlight
Users == {"u1", "u2"}
Tokens == {"bad", "t1", "t2"}

AllowedModels ==
    {"x-ai/grok-4.1-fast:free", "gpt-4", "gpt-3.5-turbo", "claude-3-opus",
     "claude-3-sonnet"}

RequestModels == {"gpt-4", "mistral-large"}

NoDoc == [exists |-> FALSE, messagesUsed |-> 0, messagesLimit |-> 0,
          banned |-> FALSE]

InitUsed == {0, 9, 10}
InitLimit == {0, 2, 10}

----------------------------------------------------------------------------
(* Pure helpers of handleAIChat *)

\* JavaScript `v || d` on a number: 0 is falsy
OrDefault(v, d) == IF v = 0 THEN d ELSE v

\* auth.verifyIdToken(idToken): the uid, or "" when the verifier throws
VerifyIdToken(tok) ==
    CASE tok = "t1" -> "u1"
      [] tok = "t2" -> "u2"
      [] OTHER -> ""

ReadUsed(doc) == OrDefault(doc.messagesUsed, 0)

ReadLimit(doc) == OrDefault(doc.messagesLimit, DefaultLimit)

\* ChatGate without the ban check
ChatGateNoBan(doc, model, key) ==
    CASE ~doc.exists -> "NotFound"
      [] OrDefault(doc.messagesUsed, 0) >= OrDefault(doc.messagesLimit, DefaultLimit)
            -> "QuotaExceeded"
      [] model \notin AllowedModels -> "ModelNotAllowed"
      [] ~key -> "NoApiKey"
      [] OTHER -> "pass"

\* ChatGate checking the model allow-list before the quota and the ban
ChatGateModelFirst(doc, model, key) ==
    CASE ~doc.exists -> "NotFound"
      [] model \notin AllowedModels -> "ModelNotAllowed"
      [] ReadUsed(doc) >= ReadLimit(doc) -> "QuotaExceeded"
      [] doc.banned -> "AccountBanned"
      [] ~key -> "NoApiKey"
      [] OTHER -> "pass"

\* The checks between the user-document read and the provider call, in the
\* order of the source; the first that fails decides the response.
ChatGate(doc, model, key) ==
    CASE ~doc.exists -> "NotFound"
      [] ReadUsed(doc) >= ReadLimit(doc) -> "QuotaExceeded"
      [] doc.banned -> "AccountBanned"
      [] model \notin AllowedModels -> "ModelNotAllowed"
      [] ~key -> "NoApiKey"
      [] OTHER -> "pass"

GateStatus(g) ==
    CASE g = "NotFound" -> 404
      [] g = "QuotaExceeded" -> 403
      [] g = "AccountBanned" -> 403
      [] g = "ModelNotAllowed" -> 400
      [] g = "NoApiKey" -> 500
      [] OTHER -> 0

\* What the provider call can come to
FetchOutcomes == {"ok", "okEmpty", "non2xx", "malformed", "unreadable", "aborted"}

ProviderOk(o) == o \in {"ok", "okEmpty"}

\* status of the response for a failed provider call; non-2xx statuses are
\* passed through (502 stands for whatever the provider answered)
FetchFailStatus(o) == IF o = "non2xx" THEN 502 ELSE 500

\* the `error` text of the response for a failed provider call: a text of
\* the handler, what the provider sent (data?.error?.message || data?.error),
\* or the message of the error that fetch threw
FetchFailError(o) ==
    CASE o = "non2xx" -> "provider"
      [] o = "aborted" -> "thrown"
      [] OTHER -> "fixed"

\* what a 2xx answer of the provider holds as first completion
Placeholder == "Pas de réponse"

\* CompletionContent passing an empty completion on as it is
CompletionContentRaw(o) == IF o = "okEmpty" THEN "" ELSE "text"

\* data?.choices?.[0]?.message?.content || "Pas de réponse"
CompletionContent(o) == IF o = "okEmpty" THEN Placeholder ELSE "text"

\* IncrementWrite as userDocRef.set({messagesUsed}), which replaces the
\* document and so drops messagesLimit and banned
IncrementWriteSet(doc, readUsed) ==
    [exists |-> TRUE, messagesUsed |-> readUsed + 1, messagesLimit |-> 0,
     banned |-> FALSE]

\* IncrementWrite storing the limit-capped value instead of messagesUsed + 1
IncrementWriteCapped(doc, readUsed) ==
    [doc EXCEPT !.messagesUsed =
        IF readUsed + 1 >= doc.messagesLimit THEN readUsed ELSE readUsed + 1]

\* userDocRef.update({messagesUsed: messagesUsed + 1})
IncrementWrite(doc, readUsed) == [doc EXCEPT !.messagesUsed = readUsed + 1]

\* AfterUpdateStatus failing the request when the update was rejected
AfterUpdateStatusStrict(updateOk) == IF updateOk THEN 200 ELSE 500

\* status of the response once the provider answered, whatever the update did
AfterUpdateStatus(updateOk) == 200

----------------------------------------------------------------------------
(* License redemption: POST /api/activate-license *)

Redeemers == 1..MaxRedeemers
LicenseKeys == {"k1", "k2"}

NoLicense == [exists |-> FALSE, consumed |-> FALSE, expired |-> FALSE,
              plan |-> "Classic"]
NoAttempt == [pc |-> "idle", user |-> "u1", key |-> "k1", seen |-> NoLicense,
              result |-> "none"]

\* messages a plan grants; the two amounts only have to differ
PlanAllotment(plan) == IF plan = "Pro" THEN 1000 ELSE 100

\* RedeemConsumed deciding on the document read by the lookup
RedeemConsumedStale(current, seen) == seen.consumed

\* the condition of the conditional update: the consumed flag as stored at
\* the time of the write
RedeemConsumed(current, seen) == current.consumed

----------------------------------------------------------------------------
(* Rate limiter: rateLimit(windowMs, maxRequests) and its wiring *)

Limiters == {"general", "admin"}
ClientKeys == {"a", "b"}

AdminRoutes ==
    {"/admin/verify", "/admin/ban-user", "/admin/ban-ip", "/admin/delete-user",
     "/admin/users", "/admin/create-license"}

RequestRoutes == {"/ai/chat", "/check-ip-ban", "/admin/ban-user", "/admin/users"}

NoWindow == [exists |-> FALSE, windowStart |-> 0, count |-> 0]
NoGate == [route |-> "none", key |-> "a", general |-> "none", admin |-> "none",
           reached |-> FALSE]

\* Admit restarting the window at a rejected request
AdmitRestartOnDeny(win, t, w, m) ==
    IF ~win.exists \/ t - win.windowStart >= w
    THEN [window |-> [exists |-> TRUE, windowStart |-> t, count |-> 1],
          allowed |-> TRUE]
    ELSE IF win.count + 1 <= m
    THEN [window |-> [win EXCEPT !.count = win.count + 1], allowed |-> TRUE]
    ELSE [window |-> [win EXCEPT !.count = win.count + 1, !.windowStart = t],
          allowed |-> FALSE]

\* Admit allowing one request more than the budget
AdmitOffByOne(win, t, w, m) ==
    IF ~win.exists \/ t - win.windowStart >= w
    THEN [window |-> [exists |-> TRUE, windowStart |-> t, count |-> 1],
          allowed |-> TRUE]
    ELSE [window |-> [win EXCEPT !.count = win.count + 1],
          allowed |-> win.count + 1 <= m + 1]

\* admit(clientKey, windowMillis, maxRequests) on the key's window: a new
\* window with count 1 when none exists or the window elapsed, otherwise
\* increment and allow iff count <= maxRequests
Admit(win, t, w, m) ==
    IF ~win.exists \/ t - win.windowStart >= w
    THEN [window |-> [exists |-> TRUE, windowStart |-> t, count |-> 1],
          allowed |-> TRUE]
    ELSE [window |-> [win EXCEPT !.count = win.count + 1],
          allowed |-> win.count + 1 <= m]

\* budget of a limiter instance of createServer
MaxRequestsOf(l) == IF l = "admin" THEN AdminMax ELSE GeneralMax

\* ChainReaches answering 429 and calling next() all the same
ChainReachesAlways(allowed) == TRUE

\* the limiter middleware calls next() exactly for the requests it allows
ChainReaches(allowed) == allowed

\* ChainOf without the admin limiter on the admin routes
ChainOfGeneralOnly(route) == <<"general">>

\* the limiter instances a request passes, in order: app.use(rateLimit(..))
\* for every route, adminRateLimit in front of the admin handlers
ChainOf(route) ==
    IF route \in AdminRoutes THEN <<"general", "admin">> ELSE <<"general">>

----------------------------------------------------------------------------
(* IP reputation gate: routes/ip-management.ts *)

Ips == {"ip1", "ip2"}
BanIds == 1..MaxBanDocs
LinkIds == 1..MaxLinkDocs
BanReasons == {"abuse", "spam"}
BanDurations == {1}       \* days a temporary ban lasts
CapValues == 1..10        \* maxAccounts: z.number().int().min(1).max(10)

NoBan == [exists |-> FALSE, ipAddress |-> "ip1", reason |-> "abuse",
          hasExpiry |-> FALSE, expiresAt |-> 0]
NoLink == [exists |-> FALSE, userId |-> "u1", ipAddress |-> "ip1", recordedAt |-> 0,
           lastUsed |-> 0]
Callers == 1..MaxTouchers
NoTouch == [pc |-> "idle", userId |-> "u1", ip |-> "ip1", found |-> 0, t |-> 0]
NoIpCall == [pc |-> "idle", ip |-> "ip1", ids |-> {}]
NoIpResp == [op |-> "none", status |-> 0, ip |-> "ip1", userId |-> "", banned |-> FALSE,
             reason |-> "", hasExpiry |-> FALSE, expiresAt |-> 0,
             accountCount |-> 0, maxAccounts |-> 0, isLimitExceeded |-> FALSE]

\* an error response of an IP-management handler: res.status(status).json({error})
IpError(op, ip, status) == [NoIpResp EXCEPT !.op = op, !.ip = ip, !.status = status]

\* res.json({...}) of an IP-management handler
IpOk(op, ip) == [NoIpResp EXCEPT !.op = op, !.ip = ip, !.status = 200]

\* the ids of db.collection("ip_bans").where("ipAddress", "==", ip).get()
MatchingBans(bans, ip) == {i \in BanIds : bans[i].exists /\ bans[i].ipAddress = ip}

\* snapshot.docs[0]: query results come ordered by document id
FirstDoc(ids) == CHOOSE i \in ids : \A j \in ids : i <= j

\* banData.expiresAt && new Date() > expiresAt
BanExpired(data, t) == data.hasExpiry /\ t > data.expiresAt

\* the ids of db.collection("user_ips").where("ipAddress", "==", ip).get()
LinksOfIp(links, ip) == {i \in LinkIds : links[i].exists /\ links[i].ipAddress = ip}

\* the ids of db.collection("user_ips").where("userId", "==", u).get()
LinksOfUser(links, u) == {i \in LinkIds : links[i].exists /\ links[i].userId = u}

\* TouchFound never finding the link of the pair
TouchFoundNever(links, u, ip) == 0

\* the loop of handleUpdateUserIPLogin over the documents of the user: the
\* id of the first one with the address, 0 when there is none
TouchFound(links, u, ip) ==
    LET found == {i \in LinksOfUser(links, u) : links[i].ipAddress = ip}
    IN IF found = {} THEN 0 ELSE FirstDoc(found)

\* TouchedLink rewriting recordedAt along with lastUsed
TouchedLinkRestamped(link, t) == [link EXCEPT !.lastUsed = t, !.recordedAt = t]

\* doc.ref.update({lastUsed: Timestamp.now()})
TouchedLink(link, t) == [link EXCEPT !.lastUsed = t]

\* accountCount >= maxAccounts, with accountCount = snapshot.size
LimitExceeded(accountCount, maxAccounts) == accountCount >= maxAccounts

\* IPService.checkIPBan turning a failed call into a ban
ClientCheckIPBanStrict(resp) ==
    IF resp.status # 200 THEN "banned"
    ELSE IF ~resp.banned THEN "null" ELSE "banned"

\* IPService.checkIPBan on the response of POST /api/check-ip-ban: null
\* unless the response is ok and says banned
ClientCheckIPBan(resp) ==
    IF resp.status # 200 THEN "null"
    ELSE IF ~resp.banned THEN "null" ELSE "banned"

----------------------------------------------------------------------------
(* Request bodies of the IP endpoints and their schemas *)

\* ipAddress as sent: ip1 and ip2 stand for an IPv4 and an IPv6 literal, the
\* third is no address
IpInputs == Ips \cup {"999.0.0.1"}

\* maxAccounts as sent: 0, 1, 1.5, 10 and 11
MaxAccountsInputs ==
    {[whole |-> 0, frac |-> FALSE], [whole |-> 1, frac |-> FALSE],
     [whole |-> 1, frac |-> TRUE], [whole |-> 10, frac |-> FALSE],
     [whole |-> 11, frac |-> FALSE]}

\* userId as sent: the uid of u1, and three strings that are none
UserIdInputs == {"u1", "id19", "id41", "id20x"}

\* email as sent
EmailInputs == {"absent", "a@b.c", "not-an-email"}

\* length of a userId and whether it matches [a-zA-Z0-9]*
UserIdShape(id) ==
    CASE id = "id19" -> [len |-> 19, alnum |-> TRUE]
      [] id = "id41" -> [len |-> 41, alnum |-> TRUE]
      [] id = "id20x" -> [len |-> 20, alnum |-> FALSE]
      [] OTHER -> [len |-> 28, alnum |-> TRUE]

\* the bodies sent to each endpoint, with the fields its schema reads
CheckIPBanBodies == [ipAddress : IpInputs]

CheckIPLimitBodies == [ipAddress : IpInputs, maxAccounts : MaxAccountsInputs]

RecordUserIPBodies == [userId : UserIdInputs, ipAddress : IpInputs, email : EmailInputs]

UpdateUserIPLoginBodies == [userId : UserIdInputs, ipAddress : IpInputs]

\* IPAddressSchema: z.string().ip({version: "v4"}).or(z.string().ip({version: "v6"}))
IPAddressSchema(a) == a \in Ips

\* z.string().min(20).max(40).regex(/^[a-zA-Z0-9]{20,40}$/)
UserIdSchema(id) ==
    /\ UserIdShape(id).len >= 20
    /\ UserIdShape(id).len <= 40
    /\ UserIdShape(id).alnum

CheckIPBanSchema(b) == IPAddressSchema(b.ipAddress)

\* CheckIPLimitSchema without .int()
CheckIPLimitSchemaNoInt(b) ==
    /\ IPAddressSchema(b.ipAddress)
    /\ b.maxAccounts.whole >= 1
    /\ b.maxAccounts.whole < 10 \/ (b.maxAccounts.whole = 10 /\ ~b.maxAccounts.frac)

\* maxAccounts: z.number().int().min(1).max(10)
CheckIPLimitSchema(b) ==
    /\ IPAddressSchema(b.ipAddress)
    /\ ~b.maxAccounts.frac
    /\ b.maxAccounts.whole >= 1
    /\ b.maxAccounts.whole <= 10

\* email: z.string().email().optional()
RecordUserIPSchema(b) ==
    /\ UserIdSchema(b.userId)
    /\ IPAddressSchema(b.ipAddress)
    /\ b.email # "not-an-email"

UpdateUserIPLoginSchema(b) == UserIdSchema(b.userId) /\ IPAddressSchema(b.ipAddress)

----------------------------------------------------------------------------
(* The store handles: lib/firebase-admin.ts *)

\* what one run of the body of initializeFirebaseAdmin meets: no
\* FIREBASE_SERVICE_ACCOUNT_KEY, a key that JSON.parse, cert or initializeApp
\* rejects, a getFirestore that throws, or none of these
InitOutcomes == {"noKey", "badKey", "noFirestore", "ok"}

FbFunctions == {"initializeFirebaseAdmin", "getAdminDb", "getAdminAuth"}

NoFbRet == [fn |-> "none", threw |-> FALSE, value |-> 0]

\* adminDb = null, adminAuth = null, initialized = false; a handle is 0 for
\* null, otherwise the number of the run that assigned it
NoHandles == [adminDb |-> 0, adminAuth |-> 0, initialized |-> FALSE, apps |-> FALSE,
              runs |-> 0, ret |-> NoFbRet]

\* the module state in which isAdminInitialized() answers `ready`
HandlesOf(ready) ==
    IF ready
    THEN [NoHandles EXCEPT !.adminDb = 1, !.adminAuth = 1, !.initialized = TRUE,
                           !.apps = TRUE, !.runs = 1]
    ELSE NoHandles

\* IsAdminInitialized answering true whatever the handles are
IsAdminInitializedAlways(s) == TRUE

\* isAdminInitialized(): adminDb !== null && adminAuth !== null
IsAdminInitialized(s) == s.adminDb # 0 /\ s.adminAuth # 0

\* the body of initializeFirebaseAdmin, from the try on
InitializeBody(s, o) ==
    LET run == [s EXCEPT !.runs = s.runs + 1]
        app == [run EXCEPT !.apps = TRUE]
    IN CASE o = "noKey" -> [state |-> run, threw |-> TRUE]
         [] o = "badKey" /\ ~s.apps -> [state |-> run, threw |-> TRUE]
         [] o = "noFirestore" -> [state |-> app, threw |-> TRUE]
         [] OTHER -> [state |-> [app EXCEPT !.adminDb = run.runs,
                                            !.adminAuth = run.runs,
                                            !.initialized = TRUE],
                      threw |-> FALSE]

\* InitializeFirebaseAdmin without the early return
InitializeFirebaseAdminAgain(s, o) == InitializeBody(s, o)

\* initializeFirebaseAdmin(): returns at once when initialized and both
\* handles are set, otherwise runs its body; a failure is rethrown
InitializeFirebaseAdmin(s, o) ==
    IF s.initialized /\ s.adminDb # 0 /\ s.adminAuth # 0
    THEN [state |-> s, threw |-> FALSE]
    ELSE InitializeBody(s, o)

\* getAdminDb(): initializes when adminDb is null, then returns adminDb
GetAdminDb(s, o) ==
    IF s.adminDb = 0
    THEN LET r == InitializeFirebaseAdmin(s, o)
         IN [state |-> r.state, threw |-> r.threw,
             value |-> IF r.threw THEN 0 ELSE r.state.adminDb]
    ELSE [state |-> s, threw |-> FALSE, value |-> s.adminDb]

\* getAdminAuth(): initializes when adminAuth is null, then returns adminAuth
GetAdminAuth(s, o) ==
    IF s.adminAuth = 0
    THEN LET r == InitializeFirebaseAdmin(s, o)
         IN [state |-> r.state, threw |-> r.threw,
             value |-> IF r.threw THEN 0 ELSE r.state.adminAuth]
    ELSE [state |-> s, threw |-> FALSE, value |-> s.adminAuth]

\* a call of one of the three functions and what it leaves behind
FbResult(fn, s, o) ==
    CASE fn = "getAdminDb" -> GetAdminDb(s, o)
      [] fn = "getAdminAuth" -> GetAdminAuth(s, o)
      [] OTHER -> LET r == InitializeFirebaseAdmin(s, o)
                  IN [state |-> r.state, threw |-> r.threw, value |-> 0]

----------------------------------------------------------------------------
(* Admin moderation engine: routes/admin.ts, and the AI configuration routes
   of routes/settings.ts and routes/ai.ts *)

AdminOps ==
    {"promoteUser", "demoteUser", "banUser", "unbanUser", "resetMessages",
     "deleteUser", "updateUserPlan", "createLicense", "invalidateLicense",
     "purgeLicenses", "updateAIConfig", "clearOldLogs"}

\* the operations whose handler parses a request body
BodyOps == AdminOps \ {"purgeLicenses"}

\* req.headers.authorization: absent or not "Bearer ...", a Bearer token of
\* fewer than 10 characters, or a Bearer token
Headers == {"none", "short"} \cup Tokens

Plans == {"Free", "Classic", "Pro"}
Configs == {"default", "cfgA", "cfgB"}

NoAccount == [isAdmin |-> FALSE, plan |-> "Free"]
NoConfig == [ai |-> "default", ai_config |-> "default"]
TargetUser == "u1"
NoAdminCall == [pc |-> "idle", op |-> "none", hdr |-> "none", bodyOk |-> FALSE,
                actor |-> "", target |-> "", n |-> 0]
NoAdminResp == [handler |-> "none", op |-> "none", hdr |-> "none", bodyOk |-> FALSE,
                status |-> 0, message |-> "", success |-> FALSE, log |-> "none",
                fields |-> {}]

\* extractIdToken(authHeader): the token, or the message of the error thrown
ExtractIdToken(h) ==
    CASE h = "none" -> [ok |-> FALSE, token |-> "",
                        message |-> "Missing or invalid authorization header"]
      [] h = "short" -> [ok |-> FALSE, token |-> "", message |-> "Invalid token format"]
      [] OTHER -> [ok |-> TRUE, token |-> h, message |-> ""]

\* how a bearer token resolves against the user documents
CallerClass(tok, usr, acc) ==
    LET uid == VerifyIdToken(tok)
    IN CASE uid = "" -> "invalid"
         [] ~usr[uid].exists -> "noAccount"
         [] ~acc[uid].isAdmin -> "nonAdmin"
         [] OTHER -> "admin"

\* the message of the error FirebaseAdminService.verifyAdmin throws for a
\* caller that is not an administrator: one Unauthorized outcome
VerifyAdminError(class) == "Unauthorized"

\* AdminGate letting every well-formed bearer token through
AdminGateNoVerify(h, usr, acc) ==
    LET t == ExtractIdToken(h)
    IN IF ~t.ok THEN [ok |-> FALSE, adminUid |-> "", message |-> t.message]
       ELSE [ok |-> TRUE, adminUid |-> VerifyIdToken(t.token), message |-> ""]

\* the first two statements of every handler of routes/admin.ts:
\* extractIdToken, then FirebaseAdminService.verifyAdmin
AdminGate(h, usr, acc) ==
    LET t == ExtractIdToken(h)
        class == CallerClass(t.token, usr, acc)
    IN IF ~t.ok THEN [ok |-> FALSE, adminUid |-> "", message |-> t.message]
       ELSE IF class # "admin"
       THEN [ok |-> FALSE, adminUid |-> "", message |-> VerifyAdminError(class)]
       ELSE [ok |-> TRUE, adminUid |-> VerifyIdToken(t.token), message |-> ""]

\* the catch of a handler of routes/admin.ts: 400 for a ZodError, else 401
AdminCatchStatus(op, zodError) == IF zodError /\ op \in BodyOps THEN 400 ELSE 401

AdminError(op, h, status, message) ==
    [NoAdminResp EXCEPT !.handler = "admin", !.op = op, !.hdr = h,
                        !.status = status, !.message = message]

\* AdminSucceeds answering success whatever the service call did
AdminSucceedsAlways(serviceResolved) == TRUE

\* a handler of routes/admin.ts answers success exactly when the awaited
\* FirebaseAdminService call resolved
AdminSucceeds(serviceResolved) == serviceResolved

\* AiConfigAuth telling a missing account from a non-admin one
AiConfigAuthLeaky(tok, usr, acc) ==
    LET class == CallerClass(tok, usr, acc)
    IN CASE class = "invalid" ->
               [ok |-> FALSE, status |-> 401, message |-> "Unauthorized: Invalid token"]
         [] class = "noAccount" ->
               [ok |-> FALSE, status |-> 404, message |-> "User not found"]
         [] class = "nonAdmin" ->
               [ok |-> FALSE, status |-> 403,
                message |-> "Forbidden: Admin access required"]
         [] OTHER -> [ok |-> TRUE, status |-> 200, message |-> ""]

\* the admin check of handleUpdateAIConfig in routes/ai.ts: 401 when
\* verifyIdToken throws, 403 when the user document is missing or not admin
AiConfigAuth(tok, usr, acc) ==
    LET class == CallerClass(tok, usr, acc)
    IN CASE class = "invalid" ->
               [ok |-> FALSE, status |-> 401, message |-> "Unauthorized: Invalid token"]
         [] class \in {"noAccount", "nonAdmin"} ->
               [ok |-> FALSE, status |-> 403,
                message |-> "Forbidden: Admin access required"]
         [] OTHER -> [ok |-> TRUE, status |-> 200, message |-> ""]

\* the fields of DEFAULT_CONFIG in routes/settings.ts
DefaultConfigFields == {"model", "systemPrompt", "temperature", "maxTokens"}

\* the fields the stored configuration document c holds; "default" stands
\* for no document
ConfigFields(c) ==
    CASE c = "cfgA" -> {"model", "temperature"}
      [] c = "cfgB" -> {"model", "systemPrompt"}
      [] OTHER -> {}

\* the body of GET /api/ai/config of routes/settings.ts:
\* {...DEFAULT_CONFIG, ...configSnap.data()}, DEFAULT_CONFIG when the
\* document is missing or the read throws
SettingsConfigBody(c, readOk) ==
    IF readOk THEN DefaultConfigFields \cup ConfigFields(c) ELSE DefaultConfigFields

\* the body of handleGetAIConfig of routes/ai.ts
AiConfigBody == {"model", "temperature", "maxTokens"}

\* Demoted refusing, silently, to demote the caller itself
DemotedUnlessSelf(acc, adminUid, target) ==
    IF adminUid = target THEN acc ELSE [acc EXCEPT ![target].isAdmin = FALSE]

\* demoteUser(adminUid, userId): isAdmin of the target is cleared, whoever
\* the caller is
Demoted(acc, adminUid, target) == [acc EXCEPT ![target].isAdmin = FALSE]

\* createLicense(plan, validityDays): the license as persisted, unconsumed
CreatedLicense(plan) ==
    [exists |-> TRUE, consumed |-> FALSE, expired |-> FALSE, plan |-> plan]

\* InvalidatedLicense marking the license expired instead of consumed
InvalidatedLicenseExpired(lic) == [lic EXCEPT !.expired = TRUE]

\* invalidateLicense(key): the license marked consumed, no credits granted
InvalidatedLicense(lic) == [lic EXCEPT !.consumed = TRUE]

----------------------------------------------------------------------------
NoReq == [token |-> "bad", model |-> "gpt-4"]
NoRd == [messagesUsed |-> 0, messagesLimit |-> 0, content |-> ""]
NoResp == [slot |-> 0, token |-> "bad", status |-> 0, kind |-> "none",
           messagesUsed |-> 0, messagesLimit |-> 0, wrote |-> FALSE,
           content |-> ""]

\* an error response of slot r: res.status(status).json({error})
Reply(r, status, kind) ==
    [slot |-> r, token |-> req[r].token, status |-> status, kind |-> kind,
     messagesUsed |-> 0, messagesLimit |-> 0, wrote |-> FALSE, content |-> ""]

\* the handler of slot r returned
Return(r) ==
    /\ pc' = [pc EXCEPT ![r] = "idle"]
    /\ req' = [req EXCEPT ![r] = NoReq]
    /\ rd' = [rd EXCEPT ![r] = NoRd]

ChatInit ==
    /\ \E u \in InitUsed, l \in InitLimit, b \in BOOLEAN :
          /\ users = [x \in Users |->
                        IF x = "u1"
                        THEN [exists |-> TRUE, messagesUsed |-> u,
                              messagesLimit |-> l, banned |-> b]
                        ELSE NoDoc]
          /\ used0 = u
    /\ apiKeySet \in BOOLEAN
    /\ pc = [r \in Reqs |-> "idle"]
    /\ req = [r \in Reqs |-> NoReq]
    /\ rd = [r \in Reqs |-> NoRd]
    /\ sent = NoResp
    /\ completions = 0
    /\ writeFailed = FALSE

\* the chat handler at rest, with user u1 holding the default plan
ChatIdle ==
    /\ users = [x \in Users |->
                  [exists |-> TRUE, messagesUsed |-> 0,
                   messagesLimit |-> DefaultLimit, banned |-> FALSE]]
    /\ used0 = 0
    /\ apiKeySet = TRUE
    /\ pc = [r \in Reqs |-> "idle"]
    /\ req = [r \in Reqs |-> NoReq]
    /\ rd = [r \in Reqs |-> NoRd]
    /\ sent = NoResp
    /\ completions = 0
    /\ writeFailed = FALSE

RedeemIdle ==
    /\ licenses = [k \in LicenseKeys |-> NoLicense]
    /\ redeem = [p \in Redeemers |-> NoAttempt]
    /\ redeem0 = [licenses |-> licenses, limits |-> [x \in Users |-> 0]]

RateIdle ==
    /\ now = 0
    /\ rateStore = [l \in Limiters |-> [a \in ClientKeys |-> NoWindow]]
    /\ admitted = [a \in ClientKeys |-> [t \in 0..RateMaxTime |-> 0]]
    /\ gate = NoGate

IpIdle ==
    /\ dbReady = TRUE
    /\ fbAdmin = HandlesOf(dbReady)
    /\ ipBans = [i \in BanIds |-> NoBan]
    /\ userIps = [i \in LinkIds |-> NoLink]
    /\ ipCall = NoIpCall
    /\ ipSent = NoIpResp
    /\ touch = [c \in Callers |-> NoTouch]

AdminIdle ==
    /\ accounts = [x \in Users |-> [isAdmin |-> x = "u2", plan |-> "Free"]]
    /\ aiConfig = NoConfig
    /\ adminLogs = <<>>
    /\ adminCall = NoAdminCall
    /\ adminSent = NoAdminResp

Init == ChatInit /\ RedeemIdle /\ RateIdle /\ IpIdle /\ AdminIdle

\* AIChatSchema.parse(req.body) throws: 400
ChatInvalidBody(r) ==
    /\ pc[r] = "idle"
    /\ completions < MaxCompletions
    /\ sent' = Reply(r, 400, "InvalidBody")
    /\ UNCHANGED <<users, apiKeySet, pc, req, rd, completions, writeFailed, used0>>
    /\ UNCHANGED <<redeemVars, rateVars, ipVars, adminVars>>

\* body validated; auth.verifyIdToken is awaited
ChatStart(r) ==
    /\ pc[r] = "idle"
    /\ completions < MaxCompletions
    /\ \E tok \in Tokens, m \in RequestModels :
          req' = [req EXCEPT ![r] = [token |-> tok, model |-> m]]
    /\ pc' = [pc EXCEPT ![r] = "verify"]
    /\ sent' = NoResp
    /\ UNCHANGED <<users, apiKeySet, rd, completions, writeFailed, used0>>
    /\ UNCHANGED <<redeemVars, rateVars, ipVars, adminVars>>

\* verifyIdToken returned or threw (401); userDocRef.get() is awaited
ChatVerify(r) ==
    /\ pc[r] = "verify"
    /\ IF VerifyIdToken(req[r].token) = ""
       THEN /\ sent' = Reply(r, 401, "Unauthorized")
            /\ Return(r)
       ELSE /\ pc' = [pc EXCEPT ![r] = "getUser"]
            /\ sent' = NoResp
            /\ UNCHANGED <<req, rd>>
    /\ UNCHANGED <<users, apiKeySet, completions, writeFailed, used0>>
    /\ UNCHANGED <<redeemVars, rateVars, ipVars, adminVars>>

\* userDocRef.get() rejects: the outer catch answers 500
ChatGetUserFail(r) ==
    /\ pc[r] = "getUser"
    /\ sent' = Reply(r, 500, "Internal")
    /\ Return(r)
    /\ UNCHANGED <<users, apiKeySet, completions, writeFailed, used0>>
    /\ UNCHANGED <<redeemVars, rateVars, ipVars, adminVars>>

\* userDocRef.get() resolved: the checks up to the provider call
ChatGetUser(r) ==
    /\ pc[r] = "getUser"
    /\ LET doc == users[VerifyIdToken(req[r].token)]
           g == ChatGate(doc, req[r].model, apiKeySet)
       IN IF g = "pass"
          THEN /\ pc' = [pc EXCEPT ![r] = "fetch"]
               /\ rd' = [rd EXCEPT ![r] = [messagesUsed |-> ReadUsed(doc),
                                           messagesLimit |-> ReadLimit(doc),
                                           content |-> ""]]
               /\ sent' = NoResp
               /\ UNCHANGED req
          ELSE /\ sent' = IF g = "QuotaExceeded"
                          THEN [Reply(r, GateStatus(g), g) EXCEPT
                                   !.messagesUsed = ReadUsed(doc),
                                   !.messagesLimit = ReadLimit(doc)]
                          ELSE Reply(r, GateStatus(g), g)
               /\ Return(r)
    /\ UNCHANGED <<users, apiKeySet, completions, writeFailed, used0>>
    /\ UNCHANGED <<redeemVars, rateVars, ipVars, adminVars>>

\* the provider call settled
ChatFetch(r) ==
    /\ pc[r] = "fetch"
    /\ \E o \in FetchOutcomes :
          IF ProviderOk(o)
          THEN /\ pc' = [pc EXCEPT ![r] = "update"]
               /\ completions' = completions + 1
               /\ rd' = [rd EXCEPT ![r].content = CompletionContent(o)]
               /\ sent' = NoResp
               /\ UNCHANGED req
          ELSE /\ sent' = Reply(r, FetchFailStatus(o), o)
               /\ Return(r)
               /\ UNCHANGED completions
    /\ UNCHANGED <<users, apiKeySet, writeFailed, used0>>
    /\ UNCHANGED <<redeemVars, rateVars, ipVars, adminVars>>

\* userDocRef.update resolved, then res.json
ChatUpdate(r) ==
    /\ pc[r] = "update"
    /\ LET uid == VerifyIdToken(req[r].token)
       IN users' = [users EXCEPT ![uid] = IncrementWrite(@, rd[r].messagesUsed)]
    /\ sent' = [Reply(r, AfterUpdateStatus(TRUE), "ok") EXCEPT
                   !.messagesUsed = rd[r].messagesUsed + 1,
                   !.messagesLimit = rd[r].messagesLimit,
                   !.wrote = TRUE, !.content = rd[r].content]
    /\ Return(r)
    /\ UNCHANGED <<apiKeySet, completions, writeFailed, used0>>
    /\ UNCHANGED <<redeemVars, rateVars, ipVars, adminVars>>

\* userDocRef.update rejected: logged, then res.json
ChatUpdateFail(r) ==
    /\ pc[r] = "update"
    /\ writeFailed' = TRUE
    /\ sent' = [Reply(r, AfterUpdateStatus(FALSE), "ok") EXCEPT
                   !.messagesUsed = rd[r].messagesUsed + 1,
                   !.messagesLimit = rd[r].messagesLimit,
                   !.content = rd[r].content]
    /\ Return(r)
    /\ UNCHANGED <<users, apiKeySet, completions, used0>>
    /\ UNCHANGED <<redeemVars, rateVars, ipVars, adminVars>>

ChatStep(r) ==
    \/ ChatInvalidBody(r)
    \/ ChatStart(r)
    \/ ChatVerify(r)
    \/ ChatGetUserFail(r)
    \/ ChatGetUser(r)
    \/ ChatFetch(r)
    \/ ChatUpdate(r)
    \/ ChatUpdateFail(r)

Next == \E r \in Reqs : ChatStep(r)

Spec == Init /\ [][Next]_vars

\* One request at a time: only slot 1 serves requests
NextSeq == ChatStep(1)

SpecSeq == Init /\ [][NextSeq]_vars

----------------------------------------------------------------------------
(* redeemLicense(userId, licenseKey) *)

LicenseStates ==
    {NoLicense,
     [exists |-> TRUE, consumed |-> FALSE, expired |-> FALSE, plan |-> "Classic"],
     [exists |-> TRUE, consumed |-> FALSE, expired |-> FALSE, plan |-> "Pro"],
     [exists |-> TRUE, consumed |-> TRUE, expired |-> FALSE, plan |-> "Pro"],
     [exists |-> TRUE, consumed |-> FALSE, expired |-> TRUE, plan |-> "Pro"]}

RedeemInit ==
    /\ licenses \in [LicenseKeys -> LicenseStates]
    /\ redeem = [p \in Redeemers |-> NoAttempt]
    /\ redeem0 = [licenses |-> licenses,
                  limits |-> [x \in Users |-> users[x].messagesLimit]]

\* a redemption request arrives
RedeemStart(p) ==
    /\ redeem[p].pc = "idle"
    /\ \E u \in Users, k \in LicenseKeys :
          redeem' = [redeem EXCEPT ![p] = [NoAttempt EXCEPT !.pc = "lookup",
                                                            !.user = u,
                                                            !.key = k]]
    /\ UNCHANGED <<licenses, redeem0>>
    /\ UNCHANGED <<chatVars, rateVars, ipVars, adminVars>>

\* the license document is read: LicenseNotFound, LicenseAlreadyConsumed and
\* LicenseExpired end the attempt
RedeemLookup(p) ==
    /\ redeem[p].pc = "lookup"
    /\ LET lic == licenses[redeem[p].key]
           res == CASE ~lic.exists -> "LicenseNotFound"
                    [] lic.consumed -> "LicenseAlreadyConsumed"
                    [] lic.expired -> "LicenseExpired"
                    [] OTHER -> "none"
       IN redeem' = [redeem EXCEPT ![p].seen = lic,
                                   ![p].result = res,
                                   ![p].pc = IF res = "none" THEN "commit" ELSE "done"]
    /\ UNCHANGED <<licenses, redeem0>>
    /\ UNCHANGED <<chatVars, rateVars, ipVars, adminVars>>

\* the atomic conditional update: mark the license consumed and raise the
\* user's messagesLimit, unless the license is consumed by now
RedeemCommit(p) ==
    /\ redeem[p].pc = "commit"
    /\ LET k == redeem[p].key
           u == redeem[p].user
       IN IF RedeemConsumed(licenses[k], redeem[p].seen)
          THEN /\ redeem' = [redeem EXCEPT ![p].result = "LicenseAlreadyConsumed",
                                           ![p].pc = "done"]
               /\ UNCHANGED <<licenses, users>>
          ELSE /\ licenses' = [licenses EXCEPT ![k].consumed = TRUE]
               /\ users' = [users EXCEPT ![u].messagesLimit =
                                @ + PlanAllotment(licenses[k].plan)]
               /\ redeem' = [redeem EXCEPT ![p].result = "ok", ![p].pc = "done"]
    /\ UNCHANGED <<apiKeySet, pc, req, rd, sent, completions, writeFailed, used0>>
    /\ UNCHANGED <<redeem0, rateVars, ipVars, adminVars>>

RedeemStep(p) ==
    \/ RedeemStart(p)
    \/ RedeemLookup(p)
    \/ RedeemCommit(p)

NextRedeem == \E p \in Redeemers : RedeemStep(p)

InitRedeem == ChatIdle /\ RedeemInit /\ RateIdle /\ IpIdle /\ AdminIdle

SpecRedeem == InitRedeem /\ [][NextRedeem]_vars

----------------------------------------------------------------------------
(* The limiter on its own, with window RateW and budget RateM *)

Verdict(allowed) == IF allowed THEN "allow" ELSE "deny"

RateTick ==
    /\ now < RateMaxTime
    /\ now' = now + 1
    /\ gate' = NoGate
    /\ UNCHANGED <<rateStore, admitted>>
    /\ UNCHANGED <<chatVars, redeemVars, ipVars, adminVars>>

RateRequest(a) ==
    LET r == Admit(rateStore["general"][a], now, RateW, RateM)
    IN /\ r.window.count <= RateM + 2
       /\ rateStore' = [rateStore EXCEPT !["general"][a] = r.window]
       /\ admitted' = IF r.allowed
                      THEN [admitted EXCEPT ![a][now] = @ + 1]
                      ELSE admitted
       /\ gate' = [route |-> "/ai/chat", key |-> a, general |-> Verdict(r.allowed),
                   admin |-> "none", reached |-> r.allowed]
       /\ UNCHANGED now
       /\ UNCHANGED <<chatVars, redeemVars, ipVars, adminVars>>

NextRate == RateTick \/ \E a \in ClientKeys : RateRequest(a)

InitRate == ChatIdle /\ RedeemIdle /\ RateIdle /\ IpIdle /\ AdminIdle

SpecRate == InitRate /\ [][NextRate]_vars

----------------------------------------------------------------------------
(* The middleware chain of createServer *)

GateKeys == {"a"}

GateTick ==
    /\ now + ClockStep <= GateTicks * ClockStep
    /\ now' = now + ClockStep
    /\ gate' = NoGate
    /\ UNCHANGED <<rateStore, admitted>>
    /\ UNCHANGED <<chatVars, redeemVars, ipVars, adminVars>>

\* a request for `route` from address a passes the limiters of its chain in
\* order; the first that denies ends the request
GateRequest(a, route) ==
    LET c == ChainOf(route)
        r1 == Admit(rateStore[c[1]][a], now, WindowMs, MaxRequestsOf(c[1]))
        two == Len(c) = 2 /\ r1.allowed
        r2 == Admit(rateStore[c[2]][a], now, WindowMs, MaxRequestsOf(c[2]))
    IN /\ r1.window.count <= GeneralMax + 1
       /\ rateStore' = [l \in Limiters |->
                          [rateStore[l] EXCEPT ![a] =
                              IF l = c[1] THEN r1.window
                              ELSE IF two /\ l = c[2] THEN r2.window
                              ELSE @]]
       /\ gate' = [route |-> route, key |-> a, general |-> Verdict(r1.allowed),
                   admin |-> IF Len(c) = 2
                             THEN IF r1.allowed THEN Verdict(r2.allowed) ELSE "skipped"
                             ELSE "none",
                   reached |-> r1.allowed /\ (Len(c) = 2 => r2.allowed)]
       /\ UNCHANGED <<now, admitted>>
       /\ UNCHANGED <<chatVars, redeemVars, ipVars, adminVars>>

NextGate == GateTick \/ \E a \in GateKeys, route \in RequestRoutes : GateRequest(a, route)

InitGate == ChatIdle /\ RedeemIdle /\ RateIdle /\ IpIdle /\ AdminIdle

SpecGate == InitGate /\ [][NextGate]_vars

----------------------------------------------------------------------------
(* The ban list: banIP and handleCheckIPBan *)

BanInit ==
    /\ dbReady \in BOOLEAN
    /\ fbAdmin = HandlesOf(dbReady)
    /\ ipBans = [i \in BanIds |-> NoBan]
    /\ userIps = [i \in LinkIds |-> NoLink]
    /\ ipCall = NoIpCall
    /\ ipSent = NoIpResp
    /\ touch = [c \in Callers |-> NoTouch]

BanFrame == UNCHANGED <<dbReady, fbAdmin, userIps, touch, rateStore, admitted, gate>>
               /\ UNCHANGED <<chatVars, redeemVars, adminVars>>

\* a day passes
BanTick ==
    /\ now < BanMaxTime
    /\ now' = now + 1
    /\ ipSent' = NoIpResp
    /\ UNCHANGED <<ipBans, ipCall>>
    /\ BanFrame

\* banIP(ip, reason, duration): a ban record is added under a generated id,
\* permanent or expiring d days from now
BanIP(ip, reason, permanent, d) ==
    /\ dbReady
    /\ \E i \in BanIds :
          /\ ~ipBans[i].exists
          /\ ipBans' = [ipBans EXCEPT ![i] =
                           [exists |-> TRUE, ipAddress |-> ip, reason |-> reason,
                            hasExpiry |-> ~permanent,
                            expiresAt |-> IF permanent THEN 0 ELSE now + d]]
    /\ ipSent' = NoIpResp
    /\ UNCHANGED <<now, ipCall>>
    /\ BanFrame

\* CheckIPBanSchema.parse(req.body) throws: 400
CheckBanInvalidBody ==
    /\ ipCall.pc = "idle"
    /\ ipSent' = IpError("checkBan", "ip1", 400)
    /\ UNCHANGED <<now, ipBans, ipCall>>
    /\ BanFrame

\* handleCheckIPBan up to the result of the ban query
CheckBanQuery(ip) ==
    /\ ipCall.pc = "idle"
    /\ LET ids == MatchingBans(ipBans, ip)
       IN IF ~dbReady \/ ids = {}
          THEN /\ ipSent' = IpOk("checkBan", ip)
               /\ UNCHANGED ipCall
          ELSE /\ ipCall' = [pc |-> "decide", ip |-> ip, ids |-> ids]
               /\ ipSent' = NoIpResp
    /\ UNCHANGED <<now, ipBans>>
    /\ BanFrame

\* the ban query rejects: the catch answers 500
CheckBanQueryFail(ip) ==
    /\ ipCall.pc = "idle"
    /\ dbReady
    /\ ipSent' = IpError("checkBan", ip, 500)
    /\ UNCHANGED <<now, ipBans, ipCall>>
    /\ BanFrame

\* handleCheckIPBan from snapshot.docs[0] on: an expired ban is deleted and
\* the answer is banned: false, any other ban is reported
CheckBanDecide ==
    /\ ipCall.pc = "decide"
    /\ LET doc == FirstDoc(ipCall.ids)
           banData == ipBans[doc]
       IN IF BanExpired(banData, now)
          THEN /\ ipBans' = [ipBans EXCEPT ![doc] = NoBan]
               /\ ipSent' = IpOk("checkBan", ipCall.ip)
          ELSE /\ ipSent' = [IpOk("checkBan", ipCall.ip) EXCEPT
                                !.banned = TRUE,
                                !.reason = banData.reason,
                                !.hasExpiry = banData.hasExpiry,
                                !.expiresAt = banData.expiresAt]
               /\ UNCHANGED ipBans
    /\ ipCall' = NoIpCall
    /\ UNCHANGED now
    /\ BanFrame

\* banDoc.ref.delete() rejects: the catch answers 500
CheckBanDeleteFail ==
    /\ ipCall.pc = "decide"
    /\ BanExpired(ipBans[FirstDoc(ipCall.ids)], now)
    /\ ipSent' = IpError("checkBan", ipCall.ip, 500)
    /\ ipCall' = NoIpCall
    /\ UNCHANGED <<now, ipBans>>
    /\ BanFrame

NextBan ==
    \/ BanTick
    \/ \E ip \in Ips, reason \in BanReasons, permanent \in BOOLEAN, d \in BanDurations :
          BanIP(ip, reason, permanent, d)
    \/ CheckBanInvalidBody
    \/ \E ip \in Ips : CheckBanQuery(ip)
    \/ \E ip \in Ips : CheckBanQueryFail(ip)
    \/ CheckBanDecide
    \/ CheckBanDeleteFail

InitBan == ChatIdle /\ RedeemIdle /\ RateIdle /\ BanInit /\ AdminIdle

SpecBan == InitBan /\ [][NextBan]_vars

----------------------------------------------------------------------------
(* A chat request from the network to the handler: app.use(rateLimit(60000,
   100)), then apiRouter.post("/ai/chat", handleAIChat); one request at a
   time, every request from the one address of GateKeys *)

\* the address the limiter key stands for
AddressOf(a) == IF a = "a" THEN "ip1" ELSE "ip2"

\* the ban list when the server starts serving: empty, or one permanent ban
PipelineBans ==
    {[i \in BanIds |-> NoBan]} \cup
    {[i \in BanIds |-> IF i = 1
                       THEN [exists |-> TRUE, ipAddress |-> ip, reason |-> "abuse",
                             hasExpiry |-> FALSE, expiresAt |-> 0]
                       ELSE NoBan] : ip \in Ips}

PipelineInit ==
    /\ dbReady = TRUE
    /\ fbAdmin = HandlesOf(dbReady)
    /\ ipBans \in PipelineBans
    /\ userIps = [i \in LinkIds |-> NoLink]
    /\ ipCall = NoIpCall
    /\ ipSent = NoIpResp
    /\ touch = [c \in Callers |-> NoTouch]

\* the clock advances while a request is being served; gate keeps the
\* passage of the request in flight through the limiter
PipelineTick ==
    /\ now + ClockStep <= GateTicks * ClockStep
    /\ now' = now + ClockStep
    /\ sent' = NoResp
    /\ UNCHANGED <<rateStore, admitted, gate>>
    /\ UNCHANGED <<users, apiKeySet, pc, req, rd, completions, writeFailed, used0>>
    /\ UNCHANGED <<redeemVars, ipVars, adminVars>>

\* POST /api/ai/chat from address a: the general limiter counts the request
\* and either ends it or calls next(), and then handleAIChat runs up to its
\* first await
PipelineRequest(r, a) ==
    LET adm == Admit(rateStore["general"][a], now, WindowMs, GeneralMax)
    IN /\ pc[r] = "idle" /\ ipCall.pc = "idle"
       /\ completions < MaxServed
       /\ adm.window.count <= GeneralMax + 1
       /\ rateStore' = [rateStore EXCEPT !["general"][a] = adm.window]
       /\ gate' = [route |-> "/ai/chat", key |-> a, general |-> Verdict(adm.allowed),
                   admin |-> "none", reached |-> ChainReaches(adm.allowed)]
       /\ IF ~ChainReaches(adm.allowed)
          THEN /\ sent' = NoResp
               /\ UNCHANGED <<pc, req, rd>>
          ELSE \/ /\ sent' = Reply(r, 400, "InvalidBody")
                  /\ UNCHANGED <<pc, req, rd>>
               \/ /\ \E tok \in Tokens, m \in RequestModels :
                        req' = [req EXCEPT ![r] = [token |-> tok, model |-> m]]
                  /\ pc' = [pc EXCEPT ![r] = "verify"]
                  /\ sent' = NoResp
                  /\ UNCHANGED rd
       /\ ipSent' = NoIpResp
       /\ UNCHANGED <<users, apiKeySet, completions, writeFailed, used0>>
       /\ UNCHANGED <<now, admitted>>
       /\ UNCHANGED <<dbReady, fbAdmin, ipBans, userIps, ipCall, touch>>
       /\ UNCHANGED <<redeemVars, adminVars>>

\* POST /api/check-ip-ban from address a about address ip: the general
\* limiter, then handleCheckIPBan up to the result of the ban query
PipelineCheckBan(a, ip) ==
    LET adm == Admit(rateStore["general"][a], now, WindowMs, GeneralMax)
        ids == MatchingBans(ipBans, ip)
    IN /\ ipCall.pc = "idle" /\ \A r \in Reqs : pc[r] = "idle"
       /\ adm.window.count <= GeneralMax + 1
       /\ rateStore' = [rateStore EXCEPT !["general"][a] = adm.window]
       /\ gate' = [route |-> "/check-ip-ban", key |-> a,
                   general |-> Verdict(adm.allowed), admin |-> "none",
                   reached |-> ChainReaches(adm.allowed)]
       /\ IF ~ChainReaches(adm.allowed)
          THEN /\ ipSent' = NoIpResp
               /\ UNCHANGED ipCall
          ELSE IF ~dbReady \/ ids = {}
          THEN /\ ipSent' = IpOk("checkBan", ip)
               /\ UNCHANGED ipCall
          ELSE /\ ipCall' = [pc |-> "decide", ip |-> ip, ids |-> ids]
               /\ ipSent' = NoIpResp
       /\ sent' = NoResp
       /\ UNCHANGED <<users, apiKeySet, pc, req, rd, completions, writeFailed, used0>>
       /\ UNCHANGED <<now, admitted>>
       /\ UNCHANGED <<dbReady, fbAdmin, ipBans, userIps, touch>>
       /\ UNCHANGED <<redeemVars, adminVars>>

\* handleAIChat after its first await
PipelineHandler(r) ==
    \/ ChatVerify(r)
    \/ ChatGetUserFail(r)
    \/ ChatGetUser(r)
    \/ ChatFetch(r)
    \/ ChatUpdate(r)
    \/ ChatUpdateFail(r)

NextPipeline ==
    \/ PipelineTick
    \/ \E a \in GateKeys : PipelineRequest(1, a)
    \/ PipelineHandler(1)
    \/ \E a \in GateKeys, ip \in Ips : PipelineCheckBan(a, ip)
    \/ CheckBanDecide

InitPipeline == ChatIdle /\ RedeemIdle /\ RateIdle /\ PipelineInit /\ AdminIdle

SpecPipeline == InitPipeline /\ [][NextPipeline]_vars

----------------------------------------------------------------------------
(* The link table: handleCheckIPLimit, handleRecordUserIP,
   handleUpdateUserIPLogin, one call after the other *)

LinkInit ==
    /\ dbReady \in BOOLEAN
    /\ fbAdmin = HandlesOf(dbReady)
    /\ ipBans = [i \in BanIds |-> NoBan]
    /\ userIps = [i \in LinkIds |-> NoLink]
    /\ ipCall = NoIpCall
    /\ ipSent = NoIpResp
    /\ touch = [c \in Callers |-> NoTouch]

LinkFrame == UNCHANGED <<dbReady, fbAdmin, ipBans, ipCall, touch, rateStore, admitted, gate>>
                /\ UNCHANGED <<chatVars, redeemVars, adminVars>>

\* db.collection("user_ips").add({userId, ipAddress, recordedAt, lastUsed}):
\* a new document under a generated id
AddLink(links, i, u, ip, t) ==
    [links EXCEPT ![i] = [exists |-> TRUE, userId |-> u, ipAddress |-> ip,
                          recordedAt |-> t, lastUsed |-> t]]

LinkTick ==
    /\ now < LinkMaxTime
    /\ now' = now + 1
    /\ ipSent' = NoIpResp
    /\ UNCHANGED userIps
    /\ LinkFrame

\* the schema of the handler `op` rejects the body: 400
LinkInvalidBody(op) ==
    /\ ipSent' = IpError(op, "ip1", 400)
    /\ UNCHANGED <<now, userIps>>
    /\ LinkFrame

\* a store call of the handler `op` rejects: the catch answers 500
LinkStoreFail(op, ip) ==
    /\ dbReady
    /\ ipSent' = IpError(op, ip, 500)
    /\ UNCHANGED <<now, userIps>>
    /\ LinkFrame

\* handleCheckIPLimit
CheckIPLimit(ip, maxAccounts) ==
    /\ LET accountCount == IF dbReady THEN Cardinality(LinksOfIp(userIps, ip)) ELSE 0
       IN ipSent' = [IpOk("checkLimit", ip) EXCEPT
                        !.accountCount = accountCount,
                        !.maxAccounts = maxAccounts,
                        !.isLimitExceeded =
                            dbReady /\ LimitExceeded(accountCount, maxAccounts)]
    /\ UNCHANGED <<now, userIps>>
    /\ LinkFrame

\* handleRecordUserIP
RecordUserIP(u, ip) ==
    /\ IF dbReady
       THEN \E i \in LinkIds :
               /\ ~userIps[i].exists
               /\ userIps' = AddLink(userIps, i, u, ip, now)
       ELSE UNCHANGED userIps
    /\ ipSent' = [IpOk("recordLink", ip) EXCEPT !.userId = u]
    /\ UNCHANGED now
    /\ LinkFrame

\* handleUpdateUserIPLogin
UpdateUserIPLogin(u, ip) ==
    /\ IF dbReady
       THEN LET found == {i \in LinksOfUser(userIps, u) : userIps[i].ipAddress = ip}
            IN IF found # {}
               THEN userIps' = [userIps EXCEPT ![FirstDoc(found)] = TouchedLink(@, now)]
               ELSE \E i \in LinkIds :
                       /\ ~userIps[i].exists
                       /\ userIps' = AddLink(userIps, i, u, ip, now)
       ELSE UNCHANGED userIps
    /\ ipSent' = [IpOk("touchLink", ip) EXCEPT !.userId = u]
    /\ UNCHANGED now
    /\ LinkFrame

NextLink ==
    \/ LinkTick
    \/ \E op \in {"checkLimit", "recordLink", "touchLink"} : LinkInvalidBody(op)
    \/ \E op \in {"checkLimit", "recordLink", "touchLink"}, ip \in Ips :
          LinkStoreFail(op, ip)
    \/ \E ip \in Ips, maxAccounts \in CapValues : CheckIPLimit(ip, maxAccounts)
    \/ \E u \in Users, ip \in Ips : RecordUserIP(u, ip)
    \/ \E u \in Users, ip \in Ips : UpdateUserIPLogin(u, ip)

InitLink == ChatIdle /\ RedeemIdle /\ RateIdle /\ LinkInit /\ AdminIdle

SpecLink == InitLink /\ [][NextLink]_vars

----------------------------------------------------------------------------
(* handleUpdateUserIPLogin, concurrent calls: the query and the write are two
   awaits, and other calls run between them *)

TouchFrame == UNCHANGED <<now, dbReady, fbAdmin, ipBans, ipCall, rateStore, admitted, gate>>
                 /\ UNCHANGED <<chatVars, redeemVars, adminVars>>

\* call c for (u, ip): the query for the documents of the user resolved and
\* the loop picked the document to update, or none; without the store handle
\* the call answers success at once
TouchLookup(c, u, ip) ==
    /\ touch[c].pc = "idle"
    /\ IF dbReady
       THEN /\ touch' = [touch EXCEPT ![c] =
                           [pc |-> "write", userId |-> u, ip |-> ip,
                            found |-> TouchFound(userIps, u, ip), t |-> now]]
            /\ ipSent' = NoIpResp
       ELSE /\ touch' = [touch EXCEPT ![c] =
                           [NoTouch EXCEPT !.pc = "done", !.userId = u, !.ip = ip]]
            /\ ipSent' = [IpOk("touchLink", ip) EXCEPT !.userId = u]
    /\ UNCHANGED userIps
    /\ TouchFrame

\* the update of the document found, or the add of a new one, resolved
TouchWrite(c) ==
    /\ touch[c].pc = "write"
    /\ LET call == touch[c]
       IN /\ IF call.found # 0
             THEN userIps' = [userIps EXCEPT ![call.found] = TouchedLink(@, call.t)]
             ELSE \E i \in LinkIds :
                     /\ ~userIps[i].exists
                     /\ userIps' = AddLink(userIps, i, call.userId, call.ip, call.t)
          /\ ipSent' = [IpOk("touchLink", call.ip) EXCEPT !.userId = call.userId]
    /\ touch' = [touch EXCEPT ![c].pc = "done"]
    /\ TouchFrame

\* the update or the add rejects: the catch answers 500
TouchWriteFail(c) ==
    /\ touch[c].pc = "write"
    /\ ipSent' = [IpError("touchLink", touch[c].ip, 500) EXCEPT
                     !.userId = touch[c].userId]
    /\ touch' = [touch EXCEPT ![c].pc = "failed"]
    /\ UNCHANGED userIps
    /\ TouchFrame

NextTouch ==
    \/ LinkTick
    \/ \E c \in Callers, u \in Users, ip \in Ips : TouchLookup(c, u, ip)
    \/ \E c \in Callers : TouchWrite(c)
    \/ \E c \in Callers : TouchWriteFail(c)

InitTouch == ChatIdle /\ RedeemIdle /\ RateIdle /\ LinkInit /\ AdminIdle

SpecTouch == InitTouch /\ [][NextTouch]_vars

----------------------------------------------------------------------------
(* The store handles over the life of the process, and the IP endpoints on
   top of them: any handler or the start-up code calls
   initializeFirebaseAdmin, getAdminDb or getAdminAuth; the IP endpoints parse
   their body and ask isAdminInitialized() *)

FbFrame == UNCHANGED <<now, ipBans, userIps, ipCall, touch, rateStore, admitted, gate>>
              /\ UNCHANGED <<chatVars, redeemVars, adminVars>>

\* one call of fn, the body of initializeFirebaseAdmin meeting o if it runs
FbCall(fn, o) ==
    /\ LET r == FbResult(fn, fbAdmin, o)
       IN /\ r.state.runs <= MaxInits
          /\ fbAdmin' = [r.state EXCEPT !.ret = [fn |-> fn, threw |-> r.threw,
                                                 value |-> r.value]]
    /\ dbReady' = IsAdminInitialized(fbAdmin')
    /\ ipSent' = NoIpResp
    /\ FbFrame

\* POST /api/check-ip-ban with body b
InputCheckIPBan(b) ==
    IF CheckIPBanSchema(b) THEN CheckBanQuery(b.ipAddress) ELSE CheckBanInvalidBody

\* POST /api/check-ip-limit with body b
InputCheckIPLimit(b) ==
    IF CheckIPLimitSchema(b)
    THEN CheckIPLimit(b.ipAddress, b.maxAccounts.whole)
    ELSE LinkInvalidBody("checkLimit")

\* POST /api/record-user-ip with body b
InputRecordUserIP(b) ==
    IF RecordUserIPSchema(b)
    THEN RecordUserIP(b.userId, b.ipAddress)
    ELSE LinkInvalidBody("recordLink")

\* POST /api/update-user-ip-login with body b
InputUpdateUserIPLogin(b) ==
    IF UpdateUserIPLoginSchema(b)
    THEN UpdateUserIPLogin(b.userId, b.ipAddress)
    ELSE LinkInvalidBody("touchLink")

NextFirebase ==
    \/ \E fn \in FbFunctions, o \in InitOutcomes : FbCall(fn, o)
    \/ \E b \in CheckIPBanBodies : InputCheckIPBan(b)
    \/ \E b \in CheckIPLimitBodies : InputCheckIPLimit(b)
    \/ \E b \in RecordUserIPBodies : InputRecordUserIP(b)
    \/ \E b \in UpdateUserIPLoginBodies : InputUpdateUserIPLogin(b)

\* the process starts with both handles null
FirebaseInit ==
    /\ dbReady = FALSE
    /\ fbAdmin = NoHandles
    /\ ipBans = [i \in BanIds |-> NoBan]
    /\ userIps = [i \in LinkIds |-> NoLink]
    /\ ipCall = NoIpCall
    /\ ipSent = NoIpResp
    /\ touch = [c \in Callers |-> NoTouch]

InitFirebase == ChatIdle /\ RedeemIdle /\ RateIdle /\ FirebaseInit /\ AdminIdle

SpecFirebase == InitFirebase /\ [][NextFirebase]_vars

----------------------------------------------------------------------------
(* The admin handlers, one request at a time *)

AdminInit ==
    /\ \E e \in BOOLEAN, a \in BOOLEAN :
          /\ users = [x \in Users |->
                        IF x = "u1" /\ ~e THEN NoDoc
                        ELSE [exists |-> TRUE, messagesUsed |-> 5,
                              messagesLimit |-> DefaultLimit, banned |-> FALSE]]
          /\ accounts = [x \in Users |->
                           [isAdmin |-> IF x = "u1" THEN e /\ a ELSE TRUE,
                            plan |-> "Free"]]
    /\ used0 = 5
    /\ apiKeySet = TRUE
    /\ pc = [r \in Reqs |-> "idle"]
    /\ req = [r \in Reqs |-> NoReq]
    /\ rd = [r \in Reqs |-> NoRd]
    /\ sent = NoResp
    /\ completions = 0
    /\ writeFailed = FALSE
    /\ aiConfig = NoConfig
    /\ adminLogs = <<>>
    /\ adminCall = NoAdminCall
    /\ adminSent = NoAdminResp

AdminFrame ==
    /\ UNCHANGED <<apiKeySet, pc, req, rd, sent, completions, writeFailed, used0>>
    /\ UNCHANGED <<redeem, redeem0, rateVars, ipVars>>

AdminStore == <<users, accounts, licenses, aiConfig, adminLogs>>

\* the handler returned: the slot is free for the next request
AdminReturn == adminCall' = [NoAdminCall EXCEPT !.n = adminCall.n]

\* a request for operation op arrives: extractIdToken, then
\* FirebaseAdminService.verifyAdmin is awaited
AdminStart(op, h, bodyOk) ==
    /\ adminCall.pc = "idle"
    /\ adminCall.n < MaxAdminCalls
    /\ IF ExtractIdToken(h).ok
       THEN /\ adminCall' = [NoAdminCall EXCEPT !.pc = "verify", !.op = op,
                                                !.hdr = h, !.bodyOk = bodyOk,
                                                !.n = adminCall.n + 1]
            /\ adminSent' = NoAdminResp
       ELSE /\ adminCall' = [NoAdminCall EXCEPT !.n = adminCall.n + 1]
            /\ adminSent' = AdminError(op, h, AdminCatchStatus(op, FALSE),
                                       ExtractIdToken(h).message)
    /\ UNCHANGED AdminStore
    /\ AdminFrame

\* verifyAdmin settled; the body is parsed; the service call is awaited
AdminVerify ==
    /\ adminCall.pc = "verify"
    /\ LET g == AdminGate(adminCall.hdr, users, accounts)
           op == adminCall.op
       IN IF ~g.ok
          THEN /\ adminSent' = [AdminError(op, adminCall.hdr,
                                           AdminCatchStatus(op, FALSE), g.message)
                                   EXCEPT !.bodyOk = adminCall.bodyOk]
               /\ AdminReturn
          ELSE IF op \in BodyOps /\ ~adminCall.bodyOk
          THEN /\ adminSent' = AdminError(op, adminCall.hdr,
                                          AdminCatchStatus(op, TRUE), "ZodError")
               /\ AdminReturn
          ELSE /\ adminCall' = [adminCall EXCEPT !.pc = "mutate", !.actor = g.adminUid]
               /\ adminSent' = NoAdminResp
    /\ UNCHANGED AdminStore
    /\ AdminFrame

\* the store mutation of FirebaseAdminService.<op>
AdminMutation(op) ==
    CASE op = "promoteUser" ->
            /\ users[TargetUser].exists
            /\ accounts' = [accounts EXCEPT ![TargetUser].isAdmin = TRUE]
            /\ UNCHANGED <<users, licenses, aiConfig, adminLogs>>
      [] op = "demoteUser" ->
            /\ users[TargetUser].exists
            /\ accounts' = Demoted(accounts, adminCall.actor, TargetUser)
            /\ UNCHANGED <<users, licenses, aiConfig, adminLogs>>
      [] op = "banUser" ->
            /\ users[TargetUser].exists
            /\ users' = [users EXCEPT ![TargetUser].banned = TRUE]
            /\ UNCHANGED <<accounts, licenses, aiConfig, adminLogs>>
      [] op = "unbanUser" ->
            /\ users[TargetUser].exists
            /\ users' = [users EXCEPT ![TargetUser].banned = FALSE]
            /\ UNCHANGED <<accounts, licenses, aiConfig, adminLogs>>
      [] op = "resetMessages" ->
            /\ users[TargetUser].exists
            /\ users' = [users EXCEPT ![TargetUser].messagesUsed = 0]
            /\ UNCHANGED <<accounts, licenses, aiConfig, adminLogs>>
      [] op = "deleteUser" ->
            /\ users' = [users EXCEPT ![TargetUser] = NoDoc]
            /\ accounts' = [accounts EXCEPT ![TargetUser] = NoAccount]
            /\ UNCHANGED <<licenses, aiConfig, adminLogs>>
      [] op = "updateUserPlan" ->
            /\ users[TargetUser].exists
            /\ \E plan \in Plans :
                  accounts' = [accounts EXCEPT ![TargetUser].plan = plan]
            /\ UNCHANGED <<users, licenses, aiConfig, adminLogs>>
      [] op = "createLicense" ->
            /\ \E k \in LicenseKeys, plan \in {"Classic", "Pro"} :
                  /\ ~licenses[k].exists
                  /\ licenses' = [licenses EXCEPT ![k] = CreatedLicense(plan)]
            /\ UNCHANGED <<users, accounts, aiConfig, adminLogs>>
      [] op = "invalidateLicense" ->
            /\ \E k \in LicenseKeys :
                  /\ licenses[k].exists
                  /\ licenses' = [licenses EXCEPT ![k] = InvalidatedLicense(@)]
            /\ UNCHANGED <<users, accounts, aiConfig, adminLogs>>
      [] op = "purgeLicenses" ->
            /\ licenses' = [k \in LicenseKeys |->
                              IF licenses[k].consumed \/ licenses[k].expired
                              THEN NoLicense ELSE licenses[k]]
            /\ UNCHANGED <<users, accounts, aiConfig, adminLogs>>
      [] op = "updateAIConfig" ->
            /\ \E c \in Configs : aiConfig' = [aiConfig EXCEPT !.ai_config = c]
            /\ UNCHANGED <<users, accounts, licenses, adminLogs>>
      [] op = "clearOldLogs" ->
            /\ \E j \in 0..Len(adminLogs) :
                  adminLogs' = SubSeq(adminLogs, j + 1, Len(adminLogs))
            /\ UNCHANGED <<users, accounts, licenses, aiConfig>>

\* the service applied its mutation; its log write is next
AdminMutate ==
    /\ adminCall.pc = "mutate"
    /\ AdminMutation(adminCall.op)
    /\ adminCall' = [adminCall EXCEPT !.pc = "log",
                        !.target = IF adminCall.op \in
                                       {"createLicense", "invalidateLicense",
                                        "purgeLicenses", "updateAIConfig",
                                        "clearOldLogs"}
                                    THEN "-" ELSE TargetUser]
    /\ adminSent' = NoAdminResp
    /\ AdminFrame

\* what the handler answers once the awaited service call settled
AdminAnswer(op, h, serviceResolved, log) ==
    IF AdminSucceeds(serviceResolved)
    THEN [NoAdminResp EXCEPT !.handler = "admin", !.op = op, !.hdr = h,
                             !.status = 200, !.success = TRUE, !.log = log]
    ELSE AdminError(op, h, AdminCatchStatus(op, FALSE), "Operation failed")

\* the mutation of the service rejects: the service call throws
AdminMutateFail ==
    /\ adminCall.pc = "mutate"
    /\ adminSent' = AdminAnswer(adminCall.op, adminCall.hdr, FALSE, "none")
    /\ AdminReturn
    /\ UNCHANGED AdminStore
    /\ AdminFrame

\* the Admin Log Entry is written after the mutation; the service resolves
AdminLog ==
    /\ adminCall.pc = "log"
    /\ adminLogs' = Append(adminLogs, [actor |-> adminCall.actor,
                                       action |-> adminCall.op,
                                       target |-> adminCall.target])
    /\ adminSent' = AdminAnswer(adminCall.op, adminCall.hdr, TRUE, "written")
    /\ AdminReturn
    /\ UNCHANGED <<users, accounts, licenses, aiConfig>>
    /\ AdminFrame

\* the log write rejects: the service keeps the mutation and resolves
AdminLogFail ==
    /\ adminCall.pc = "log"
    /\ adminSent' = AdminAnswer(adminCall.op, adminCall.hdr, TRUE, "failed")
    /\ AdminReturn
    /\ UNCHANGED AdminStore
    /\ AdminFrame

\* a response of the AI configuration routes
ConfigResp(handler, h, status, message) ==
    [NoAdminResp EXCEPT !.handler = handler, !.op = "updateAIConfig", !.hdr = h,
                        !.status = status, !.message = message,
                        !.success = status = 200]

\* handleUpdateAIConfig of routes/settings.ts, mounted at PUT /api/ai/config:
\* the body is merged into settings/ai
SettingsUpdateAIConfig(h, body) ==
    /\ adminCall.pc = "idle"
    /\ adminCall.n < MaxAdminCalls
    /\ adminCall' = [adminCall EXCEPT !.n = adminCall.n + 1]
    /\ IF body = "invalid"
       THEN /\ adminSent' = ConfigResp("settings", h, 400, "Invalid config")
            /\ UNCHANGED aiConfig
       ELSE /\ aiConfig' = [aiConfig EXCEPT !.ai = body]
            /\ adminSent' = ConfigResp("settings", h, 200, "")
    /\ UNCHANGED <<users, accounts, licenses, adminLogs>>
    /\ AdminFrame

\* the set() of routes/settings.ts rejects: 500
SettingsUpdateFail(h) ==
    /\ adminCall.pc = "idle"
    /\ adminCall.n < MaxAdminCalls
    /\ adminCall' = [adminCall EXCEPT !.n = adminCall.n + 1]
    /\ adminSent' = ConfigResp("settings", h, 500, "Failed to update AI config")
    /\ UNCHANGED AdminStore
    /\ AdminFrame

\* handleUpdateAIConfig of routes/ai.ts: idToken from the body, admin check,
\* then the valid fields are merged into settings/ai_config
AiUpdateAIConfig(h, body) ==
    /\ adminCall.pc = "idle"
    /\ adminCall.n < MaxAdminCalls
    /\ adminCall' = [adminCall EXCEPT !.n = adminCall.n + 1]
    /\ LET g == AiConfigAuth(h, users, accounts)
       IN IF h = "none"
          THEN /\ adminSent' = ConfigResp("ai", h, 400, "Invalid token")
               /\ UNCHANGED aiConfig
          ELSE IF ~g.ok
          THEN /\ adminSent' = ConfigResp("ai", h, g.status, g.message)
               /\ UNCHANGED aiConfig
          ELSE IF body = "invalid"
          THEN /\ adminSent' = ConfigResp("ai", h, 400, "No valid fields to update")
               /\ UNCHANGED aiConfig
          ELSE /\ aiConfig' = [aiConfig EXCEPT !.ai_config = body]
               /\ adminSent' = ConfigResp("ai", h, 200, "")
    /\ UNCHANGED <<users, accounts, licenses, adminLogs>>
    /\ AdminFrame

\* a response of GET /api/ai/config with the fields of its body
ConfigBodyResp(handler, status, fields) ==
    [NoAdminResp EXCEPT !.handler = handler, !.op = "getAIConfig",
                        !.status = status, !.fields = fields]

\* handleGetAIConfig of routes/settings.ts, mounted at GET /api/ai/config
SettingsGetAIConfig(readOk) ==
    /\ adminCall.pc = "idle"
    /\ adminSent' = ConfigBodyResp("settings", 200,
                                   SettingsConfigBody(aiConfig.ai, readOk))
    /\ UNCHANGED adminCall
    /\ UNCHANGED AdminStore
    /\ AdminFrame

\* handleGetAIConfig of routes/ai.ts: model, temperature and maxTokens, or
\* 500 when the read throws
AiGetAIConfig(readOk) ==
    /\ adminCall.pc = "idle"
    /\ adminSent' = IF readOk THEN ConfigBodyResp("ai", 200, AiConfigBody)
                    ELSE [ConfigBodyResp("ai", 500, {}) EXCEPT
                             !.message = "Failed to get AI config"]
    /\ UNCHANGED adminCall
    /\ UNCHANGED AdminStore
    /\ AdminFrame

NextAdmin ==
    \/ \E op \in AdminOps, h \in Headers, bodyOk \in BOOLEAN : AdminStart(op, h, bodyOk)
    \/ AdminVerify
    \/ AdminMutate
    \/ AdminMutateFail
    \/ AdminLog
    \/ AdminLogFail
    \/ \E h \in Headers, body \in Configs \cup {"invalid"} :
          SettingsUpdateAIConfig(h, body)
    \/ \E h \in Headers : SettingsUpdateFail(h)
    \/ \E h \in Headers, body \in Configs \cup {"invalid"} : AiUpdateAIConfig(h, body)
    \/ \E readOk \in BOOLEAN : SettingsGetAIConfig(readOk)
    \/ \E readOk \in BOOLEAN : AiGetAIConfig(readOk)

InitAdmin == AdminInit /\ RedeemIdle /\ RateIdle /\ IpIdle

SpecAdmin == InitAdmin /\ [][NextAdmin]_vars

----------------------------------------------------------------------------
(* The admin handlers when one account is the only administrator *)

LoneAdminInit ==
    /\ users = [x \in Users |->
                  [exists |-> TRUE, messagesUsed |-> 5,
                   messagesLimit |-> DefaultLimit, banned |-> FALSE]]
    /\ accounts = [x \in Users |-> [isAdmin |-> x = TargetUser, plan |-> "Free"]]
    /\ used0 = 5
    /\ apiKeySet = TRUE
    /\ pc = [r \in Reqs |-> "idle"]
    /\ req = [r \in Reqs |-> NoReq]
    /\ rd = [r \in Reqs |-> NoRd]
    /\ sent = NoResp
    /\ completions = 0
    /\ writeFailed = FALSE
    /\ aiConfig = NoConfig
    /\ adminLogs = <<>>
    /\ adminCall = NoAdminCall
    /\ adminSent = NoAdminResp

InitLoneAdmin == LoneAdminInit /\ RedeemIdle /\ RateIdle /\ IpIdle

SpecLoneAdmin == InitLoneAdmin /\ [][NextAdmin]_vars

----------------------------------------------------------------------------
(* The life of a license: createLicense, invalidateLicense, redeemLicense *)

\* createLicense or invalidateLicense of an administrator takes effect
LicenseAdmin(op) ==
    /\ AdminMutation(op)
    /\ UNCHANGED <<adminCall, adminSent>>
    /\ UNCHANGED <<apiKeySet, pc, req, rd, sent, completions, writeFailed, used0>>
    /\ UNCHANGED <<redeem, redeem0, rateVars, ipVars>>

NextLicense ==
    \/ \E op \in {"createLicense", "invalidateLicense"} : LicenseAdmin(op)
    \/ \E p \in Redeemers : RedeemStep(p)

InitLicense == ChatIdle /\ RedeemIdle /\ RateIdle /\ IpIdle /\ AdminIdle

SpecLicense == InitLicense /\ [][NextLicense]_vars

----------------------------------------------------------------------------
(* Moderation while a chat request is in flight: banUser, unbanUser and
   resetMessages of an administrator between the steps of handleAIChat *)

ModerationOps == {"banUser", "unbanUser", "resetMessages"}

\* the store write of a moderation call of the administrator u2 on u1, and
\* the answer of its handler
ModerationAdmin(op) ==
    /\ AdminMutation(op)
    /\ adminSent' = AdminAnswer(op, "t2", TRUE, "written")
    /\ UNCHANGED adminCall
    /\ UNCHANGED <<apiKeySet, pc, req, rd, sent, completions, writeFailed, used0>>
    /\ UNCHANGED <<redeem, redeem0, rateVars, ipVars>>

NextModeration ==
    \/ ChatStep(1)
    \/ \E op \in ModerationOps : ModerationAdmin(op)

InitModeration == ChatInit /\ RedeemIdle /\ RateIdle /\ IpIdle /\ AdminIdle

SpecModeration == InitModeration /\ [][NextModeration]_vars

----------------------------------------------------------------------------
(* Quota ledger: redeemLicense *)

Fresh(lic) == lic.exists /\ ~lic.consumed /\ ~lic.expired

\* the attempts on key k that have returned
Returned(k) == {p \in Redeemers : redeem[p].pc = "done" /\ redeem[p].key = k}

Succeeded(k) == {p \in Returned(k) : redeem[p].result = "ok"}

\* what the successful attempts on the keys ks granted to user u
RECURSIVE GrantedTo(_, _)
GrantedTo(u, ks) ==
    IF ks = {} THEN 0
    ELSE LET k == CHOOSE x \in ks : TRUE
         IN (IF \E p \in Succeeded(k) : redeem[p].user = u
             THEN PlanAllotment(redeem0.licenses[k].plan) ELSE 0)
            + GrantedTo(u, ks \ {k})

\* C1: of the concurrent redeemLicense attempts on one unconsumed, unexpired
\* key, exactly one succeeds and every other one fails with
\* LicenseAlreadyConsumed, in every interleaving; the messagesLimit of each
\* user has risen by exactly the allotments of the keys that user redeemed.
C1_RedeemedOnce ==
    /\ \A k \in LicenseKeys :
          (Fresh(redeem0.licenses[k]) /\ Returned(k) # {}) =>
             /\ Cardinality(Succeeded(k)) = 1
             /\ \A p \in Returned(k) \ Succeeded(k) :
                   redeem[p].result = "LicenseAlreadyConsumed"
    /\ \A k \in LicenseKeys : ~Fresh(redeem0.licenses[k]) => Succeeded(k) = {}
    /\ \A u \in Users :
          users[u].messagesLimit = redeem0.limits[u] + GrantedTo(u, LicenseKeys)

\* two attempts of one user on the same fresh key both read the license
\* unconsumed; one succeeded, the other failed, one allotment was granted
C1_Witness ==
    \E p, q \in Redeemers :
       /\ p # q
       /\ redeem[p].pc = "done" /\ redeem[q].pc = "done"
       /\ redeem[p].key = "k1" /\ redeem[q].key = "k1"
       /\ redeem[p].user = "u1" /\ redeem[q].user = "u1"
       /\ Fresh(redeem[p].seen) /\ Fresh(redeem[q].seen)
       /\ redeem[p].result = "ok" /\ redeem[q].result = "LicenseAlreadyConsumed"
       /\ users["u1"].messagesLimit
             = redeem0.limits["u1"] + PlanAllotment(redeem0.licenses["k1"].plan)

----------------------------------------------------------------------------
(* Quota ledger: handleAIChat *)

U1 == users["u1"]

\* slot r takes the step that follows a resolved userDocRef.get()
GateStep(r) == pc[r] = "getUser" /\ pc'[r] # "getUser" /\ sent'.kind # "Internal"

\* the document slot r reads in that step
GateDoc(r) == users[VerifyIdToken(req[r].token)]

\* slot r is rejected in this step without a provider call or a store write
RejectedWith(r, status, kind) ==
    /\ sent'.slot = r
    /\ sent'.status = status
    /\ sent'.kind = kind
    /\ pc'[r] = "idle"
    /\ users' = users
    /\ completions' = completions

\* C2: a chat request that reads a user document with stored
\* messagesUsed >= messagesLimit (any pair >= 0, messagesLimit = 0 included,
\* banned or not) is answered 403 QuotaExceeded, the provider is not called
\* and messagesUsed is unchanged.
C2_QuotaExceededWheneverUsedAtLimit ==
    [][\A r \in Reqs :
          (GateStep(r) /\ GateDoc(r).exists
             /\ GateDoc(r).messagesUsed >= GateDoc(r).messagesLimit)
          => RejectedWith(r, 403, "QuotaExceeded")]_vars

C4_ExactlyOnePerCompletion ==
    [][IF pc[1] = "update"
       THEN U1' = [U1 EXCEPT !.messagesUsed = U1.messagesUsed + 1]
       ELSE users' = users]_vars

\* C4 amended: in a request served alone, stored messagesUsed rises by exactly
\* 1 when the completion succeeded and the increment write succeeded, and by 0
\* otherwise (every completion failure, and a rejected write); the only step
\* that writes is the one after a successful provider response.
C4_ExactlyOnePerPersistedCompletion ==
    [][IF pc[1] = "update" /\ sent'.wrote
       THEN users' = [users EXCEPT !["u1"].messagesUsed = U1.messagesUsed + 1]
       ELSE users' = users]_vars

\* a completion was persisted: the response follows a write that raised the
\* stored counter to the reported value
C4_Witness ==
    /\ sent.kind = "ok" /\ sent.wrote
    /\ U1.messagesUsed = sent.messagesUsed
    /\ U1.messagesUsed = used0 + 1

\* C5: starting from messagesUsed = 0 with limit L (L >= 1, where the stored
\* limit is the one the handler reads) and at most MaxInFlight requests in
\* flight, the completions served never exceed L + MaxInFlight; stated for
\* the runs in which every increment write succeeded.
C5_BoundedOverrun ==
    (used0 = 0 /\ U1.messagesLimit >= 1 /\ ~writeFailed)
    => completions <= U1.messagesLimit + MaxInFlight

\* C6: when no increment write was rejected and none is pending, the stored
\* messagesUsed has risen by the number of completions served.
C6_UsedCountsCompletions ==
    (~writeFailed /\ \A r \in Reqs : pc[r] # "update")
    => U1.messagesUsed = used0 + completions

\* C7: when the increment write is rejected after a successful completion,
\* the request answers 200 with the answer, returns without a second write,
\* and the stored messagesUsed keeps its value.
C7_WriteFailureKeepsAnswer ==
    [][\A r \in Reqs :
          (pc[r] = "update" /\ pc'[r] # "update" /\ ~sent'.wrote)
          => /\ sent'.slot = r
             /\ sent'.status = 200
             /\ sent'.kind = "ok"
             /\ sent'.messagesUsed = rd[r].messagesUsed + 1
             /\ pc'[r] = "idle"
             /\ users' = users]_vars

\* an answer was sent although its increment write was rejected
C7_Witness ==
    /\ sent.kind = "ok" /\ ~sent.wrote /\ sent.status = 200
    /\ writeFailed

\* the second request of the scenario: a request of the same user that got
\* as far as the quota check
ReachedQuotaCheck ==
    sent.token = "t1" /\ sent.kind \notin {"none", "ok", "InvalidBody", "Internal"}

Scenario9of10 == used0 = 9 /\ U1.messagesLimit = 10

----------------------------------------------------------------------------
(* IP reputation gate: checkBan *)

\* the step in which a checkBan call that met no store failure returns
BanDecided == ipCall.pc = "decide" /\ ipSent'.op = "checkBan" /\ ipSent'.status = 200

\* C11: a checkBan call for an address whose ban records are all expired (the
\* records the call's query returned, none added since) returns
\* banned = false and, when it returns, no ban record for that address remains
\* in the store; stated for calls whose query and delete succeed.
C11_LazyExpiry ==
    [][(/\ BanDecided
        /\ MatchingBans(ipBans, ipCall.ip) = ipCall.ids
        /\ \A i \in ipCall.ids : BanExpired(ipBans[i], now))
       => /\ ~ipSent'.banned
          /\ MatchingBans(ipBans', ipCall.ip) = {}]_vars

\* C12: a checkBan call whose query returned at least one ban record that is
\* permanent or not yet expired returns banned = true with the reason of such
\* a record, whatever other records (expired ones included) the address has;
\* stated for calls whose query and delete succeed.
C12_ActiveBanReported ==
    [][(/\ BanDecided
        /\ \E i \in ipCall.ids : ~BanExpired(ipBans[i], now))
       => /\ ipSent'.banned
          /\ \E i \in ipCall.ids :
                ~BanExpired(ipBans[i], now) /\ ipSent'.reason = ipBans[i].reason]_vars

\* the step in which a checkBan call meets a store outage: the store handle
\* is not set up, or the ban query or the delete rejects
BanOutage ==
    \/ ~dbReady /\ \E ip \in Ips : CheckBanQuery(ip)
    \/ \E ip \in Ips : CheckBanQueryFail(ip)
    \/ CheckBanDeleteFail

\* C13 as stated: a checkBan call that meets a store outage is answered
\* banned = false, not an error.
C13_GateAnswersNotBanned ==
    [][BanOutage => (ipSent'.status = 200 /\ ~ipSent'.banned)]_vars

\* C13 amended: with the store handle not set up the endpoint answers
\* banned = false; when the ban query or the delete rejects it answers 500,
\* and IPService.checkIPBan turns that answer into null (not banned); either
\* way the caller of IPService.checkIPBan is not blocked and the ban list is
\* left as it was.
C13_FailsOpenAtClient ==
    [][BanOutage =>
          /\ ipSent'.op = "checkBan"
          /\ ipSent'.status = IF dbReady THEN 500 ELSE 200
          /\ ~ipSent'.banned
          /\ ClientCheckIPBan(ipSent') = "null"
          /\ ipBans' = ipBans]_vars

\* the ban query of an address under a permanent ban was rejected: the
\* endpoint answered 500 and the client took the address as not banned
C13_Witness ==
    /\ ipSent.op = "checkBan" /\ ipSent.status = 500
    /\ ClientCheckIPBan(ipSent) = "null"
    /\ ipCall.pc = "idle"
    /\ \E i \in MatchingBans(ipBans, ipSent.ip) : ~ipBans[i].hasExpiry

----------------------------------------------------------------------------
(* IP reputation gate: account cap and links *)

\* the distinct users that have a link for address ip
UsersOfIp(ip) == {userIps[i].userId : i \in LinksOfIp(userIps, ip)}

\* the links stored for the pair (u, ip)
LinksOfPair(u, ip) == {i \in LinksOfIp(userIps, ip) : userIps[i].userId = u}

\* C14: checkAccountCap(ip, max) answers exceeded = true if and only if the
\* number of distinct users recorded for ip is >= max, for every max in 1..10
\* and every store content recordLink and touchLink calls lead to.
C14_ExceededIffDistinctUsers ==
    (ipSent.op = "checkLimit" /\ ipSent.status = 200 /\ dbReady)
    => (ipSent.isLimitExceeded
          <=> Cardinality(UsersOfIp(ipSent.ip)) >= ipSent.maxAccounts)

\* C15: after any series of recordLink and touchLink calls made one after
\* the other, the store holds at most one link per (userId, ipAddress) pair.
C15_OneLinkPerPair ==
    \A u \in Users, ip \in Ips : Cardinality(LinksOfPair(u, ip)) <= 1

----------------------------------------------------------------------------
(* Admin moderation engine *)

\* the Authorization header or idToken of the request that acts in this step
ActingHeader == IF adminCall.pc = "idle" THEN adminSent'.hdr ELSE adminCall.hdr

\* the credential h verifies to an account with isAdmin = true
IsAdminCredential(h) == h \in Tokens /\ CallerClass(h, users, accounts) = "admin"

\* C16: the stored AI configuration changes only in a step of a request whose
\* credential verifies to an account with isAdmin = true; a caller without
\* credential or without the admin flag never changes it.
C16_ConfigUpdateAdminGated ==
    [][aiConfig' # aiConfig => IsAdminCredential(ActingHeader)]_vars

\* C17: a mutating operation of routes/admin.ts reaches its store mutation
\* only from the step in which the bearer credential was extracted, verified
\* and found to belong to an account with isAdmin = true (and the body was
\* valid); the store changes in no other step of the handler; a request that
\* fails a check leaves the store unchanged, and one whose credential is not
\* an administrator's is answered 401, also when its body is invalid.
C17_MutationAfterAdminCheck ==
    [][/\ adminCall'.pc = "mutate" =>
             /\ adminCall.pc = "verify"
             /\ IsAdminCredential(adminCall.hdr)
             /\ adminCall.op \in BodyOps => adminCall.bodyOk
       /\ (adminCall.pc # "idle" /\ AdminStore' # AdminStore) =>
             adminCall.pc \in {"mutate", "log"}
       /\ (adminSent'.handler = "admin" /\ adminCall.pc \in {"idle", "verify"}) =>
             /\ AdminStore' = AdminStore
             /\ ~adminSent'.success
             /\ ~IsAdminCredential(adminSent'.hdr) => adminSent'.status = 401]_vars

\* a ban request with an invalid body from an existing account without the
\* admin flag was answered 401 and the target is not banned
C17_Witness ==
    /\ adminSent.handler = "admin" /\ adminSent.op = "banUser"
    /\ adminSent.hdr = "t1" /\ ~adminSent.bodyOk
    /\ adminSent.status = 401
    /\ users["u1"].exists /\ ~accounts["u1"].isAdmin /\ ~users["u1"].banned

AuthFailures == {"invalid", "noAccount", "nonAdmin"}

\* a caller of the given class: a token and the user documents it meets
CallerOf(class) ==
    CASE class = "invalid" -> [token |-> "bad", usr |-> users, acc |-> accounts]
      [] class = "noAccount" ->
            [token |-> "t1", usr |-> [users EXCEPT !["u1"] = NoDoc],
             acc |-> [accounts EXCEPT !["u1"] = NoAccount]]
      [] OTHER ->
            [token |-> "t1",
             usr |-> [users EXCEPT !["u1"] = [users["u2"] EXCEPT !.banned = FALSE]],
             acc |-> [accounts EXCEPT !["u1"] = NoAccount]]

\* status and body the handler sends a caller of the given class
AuthReply(handler, op, class) ==
    LET c == CallerOf(class)
    IN IF handler = "ai"
       THEN [status |-> AiConfigAuth(c.token, c.usr, c.acc).status,
             message |-> AiConfigAuth(c.token, c.usr, c.acc).message]
       ELSE [status |-> AdminCatchStatus(op, FALSE),
             message |-> AdminGate(c.token, c.usr, c.acc).message]

\* the step answers a request that carried a token and failed authorization
AuthRejected ==
    /\ adminCall.pc \in {"idle", "verify"}
    /\ adminSent'.handler \in {"admin", "ai"}
    /\ adminSent'.hdr \in Tokens
    /\ CallerClass(adminSent'.hdr, users, accounts) \in AuthFailures

Visible(resp) == [status |-> resp.status, message |-> resp.message]

SameReplyAs(handler, class) ==
    IF handler = "ai"
    THEN IF class = "invalid" THEN {"invalid"} ELSE {"noAccount", "nonAdmin"}
    ELSE AuthFailures

MutatedStore == <<users, accounts, licenses, aiConfig>>

\* the Admin Log Entry of the operation in flight
LogEntryOfCall ==
    [actor |-> adminCall.actor, action |-> adminCall.op, target |-> adminCall.target]

----------------------------------------------------------------------------
(* License lifecycle *)

\* the attempt p returns in this step
RedeemReturns(p) == redeem[p].pc # "done" /\ redeem'[p].pc = "done"

\* C20: a license comes into being unconsumed; a redemption that returns
\* while the license is unconsumed succeeds, marks it consumed and raises the
\* messagesLimit of its user by the plan's allotment; a redemption that
\* returns once the license is consumed fails with LicenseAlreadyConsumed and
\* changes no messagesLimit; invalidateLicense marks the license consumed and
\* changes no messagesLimit; a consumed license stays consumed.
C20_LicenseLifecycle ==
    [][/\ \A k \in LicenseKeys :
             /\ (~licenses[k].exists /\ licenses'[k].exists) =>
                   (~licenses'[k].consumed /\ users' = users)
             /\ licenses[k].consumed =>
                   (licenses'[k].exists /\ licenses'[k].consumed)
             /\ (licenses[k].exists /\ licenses'[k] # licenses[k]) =>
                   /\ licenses'[k] = [licenses[k] EXCEPT !.consumed = TRUE]
                   /\ \/ users' = users /\ redeem' = redeem
                      \/ \E p \in Redeemers :
                            RedeemReturns(p) /\ redeem'[p].result = "ok"
                               /\ redeem[p].key = k
       /\ \A p \in Redeemers : RedeemReturns(p) =>
             LET k == redeem[p].key
                 u == redeem[p].user
             IN /\ (licenses[k].exists /\ licenses[k].consumed) =>
                      /\ redeem'[p].result = "LicenseAlreadyConsumed"
                      /\ users' = users /\ licenses' = licenses
                /\ Fresh(licenses[k]) =>
                      /\ redeem'[p].result = "ok"
                      /\ licenses'[k].consumed
                      /\ users' = [users EXCEPT ![u].messagesLimit =
                                      @ + PlanAllotment(licenses[k].plan)]
                /\ ~licenses[k].exists =>
                      /\ redeem'[p].result = "LicenseNotFound"
                      /\ users' = users
       /\ users' # users =>
             \E p \in Redeemers : RedeemReturns(p) /\ redeem'[p].result = "ok"]_vars

\* a created Pro license was redeemed once and a later redemption of it
\* failed; the other license was invalidated and raised no limit
C20_Witness ==
    \E p, q \in Redeemers :
       /\ redeem[p].pc = "done" /\ redeem[p].key = "k1" /\ redeem[p].result = "ok"
       /\ redeem[p].user = "u1"
       /\ redeem[q].pc = "done" /\ redeem[q].key = "k1" /\ redeem[q].seen.consumed
       /\ redeem[q].result = "LicenseAlreadyConsumed"
       /\ users["u1"].messagesLimit = DefaultLimit + PlanAllotment("Pro")
       /\ licenses["k2"].exists /\ licenses["k2"].consumed
       /\ users["u2"].messagesLimit = DefaultLimit

----------------------------------------------------------------------------
(* Order of the gates on a chat request *)

\* checkBan(ip) of the reputation gate: some ban record of the address is
\* permanent or not yet expired
AddressBanned(bans, ip, t) ==
    \E i \in MatchingBans(bans, ip) : ~BanExpired(bans[i], t)

\* the handler of slot r reads the user's quota in this step
ReadsQuota(r) ==
    pc[r] = "getUser" /\ pc'[r] # "getUser" /\ sent'.kind # "Internal"

\* the handler of slot r calls the AI provider in this step
CallsProvider(r) == pc[r] # "fetch" /\ pc'[r] = "fetch"

\* C21: the quota of the user is read, and the AI provider is called, only
\* for a chat request that the rate limiter admitted and whose client address
\* has no live ban.
C21_GatesInOrder ==
    [][\A r \in Reqs :
          (ReadsQuota(r) \/ CallsProvider(r)) =>
             /\ gate.route = "/ai/chat" /\ gate.general = "allow"
             /\ ~AddressBanned(ipBans, AddressOf(gate.key), now)]_vars

----------------------------------------------------------------------------
(* Rejections of the gates *)

\* the persistent store
Store == <<users, accounts, licenses, ipBans, userIps, aiConfig, adminLogs>>

\* C22: while the request in flight is one the rate limiter rejected, the
\* persistent store does not change and no handler runs; the step in which
\* the limiter counts a request changes nothing of the store; the step in
\* which the reputation gate answers "banned" changes nothing of the store.
C22_RejectionLeavesStore ==
    [][/\ gate'.general = "deny" => (Store' = Store /\ pc' = pc /\ ipCall' = ipCall)
       /\ rateStore' # rateStore => Store' = Store
       /\ ipSent'.banned => Store' = Store]_vars

\* the limiter has just rejected a request after a completion was served,
\* and the reputation gate has reported a ban before
C22_Witness ==
    /\ gate.general = "deny"
    /\ rateStore["general"]["a"].count > GeneralMax
    /\ completions > 0
    /\ \E i \in BanIds : ipBans[i].exists

----------------------------------------------------------------------------
(* Failures of the AI provider *)

ProviderFailures == FetchOutcomes \ {"ok", "okEmpty"}

\* C23: when the provider call fails (unreachable, non-2xx, unreadable or
\* malformed body) the chat handler answers 500 with a text of its own, never
\* with the status or the error of the provider.
C23_ProviderFailureAnswers500 ==
    sent.kind \in ProviderFailures =>
       (sent.status = 500 /\ FetchFailError(sent.kind) # "provider")

----------------------------------------------------------------------------
(* Statuses of the admin endpoints *)

\* the statuses the failure of an admin request may be answered with, by the
\* point of the handler at which it failed
StatusOfFailure(call, h, usr, acc) ==
    LET t == ExtractIdToken(h)
        class == CallerClass(t.token, usr, acc)
    IN CASE call.pc = "idle" -> {401}
         [] call.pc = "verify" /\ class = "invalid" -> {401}
         [] call.pc = "verify" /\ class \in {"noAccount", "nonAdmin"} -> {403}
         [] call.pc = "verify" -> {400}
         [] OTHER -> {404, 500}

\* C24: a failed admin request is answered 400 when its body fails
\* validation, 401 when the credential is missing or invalid, 403 when the
\* verified caller is no administrator, and 404 or 500, never 401, when the
\* mutation fails after the caller was verified.
C24_StatusByFailureClass ==
    [][(adminSent'.handler = "admin" /\ ~adminSent'.success) =>
          adminSent'.status \in
             StatusOfFailure(adminCall, adminSent'.hdr, users, accounts)]_vars

----------------------------------------------------------------------------
(* Demotion of the last administrator *)

Admins == {x \in Users : accounts[x].isAdmin}

\* C25: nothing stands between an administrator and its own demotion: a
\* verified administrator that asks to demote itself is passed on to the
\* service, the service clears its isAdmin flag, and the handler answers
\* success; starting with exactly one administrator this leaves none.
C25_SelfDemotionSucceeds ==
    [][/\ (/\ adminCall.pc = "verify" /\ adminCall.op = "demoteUser"
           /\ adminCall.bodyOk
           /\ AdminGate(adminCall.hdr, users, accounts).ok) =>
             adminCall'.pc = "mutate"
       /\ (/\ adminCall.pc = "mutate" /\ adminCall.op = "demoteUser"
           /\ adminCall'.pc = "log") =>
             ~accounts'[TargetUser].isAdmin
       /\ (/\ adminCall.pc = "log" /\ adminCall.op = "demoteUser"
           /\ adminCall.actor = TargetUser) =>
             (adminSent'.success /\ Admins' = {})]_vars

\* the only administrator demoted itself and was answered success: no
\* account is an administrator any more
C25_Witness ==
    /\ Admins = {}
    /\ adminSent.handler = "admin" /\ adminSent.op = "demoteUser"
    /\ adminSent.success /\ VerifyIdToken(adminSent.hdr) = TargetUser

----------------------------------------------------------------------------
(* The AI configuration as clients see it *)

\* C26: the body GET /api/ai/config answers with never holds the system
\* prompt, whether the configuration document exists, is missing, or cannot
\* be read.
C26_SystemPromptNotReturned ==
    (adminSent.op = "getAIConfig" /\ adminSent.handler = "settings") =>
       "systemPrompt" \notin adminSent.fields

----------------------------------------------------------------------------
(* touchLink *)

\* what a touchLink for (u, ip) does to the link table in this step: one link
\* of the pair gets lastUsed refreshed and nothing else changes, or, when the
\* pair has no link, exactly one link is created; the pair has a link after
TouchUpserts(u, ip) ==
    LET had == LinksOfPair(u, ip)
    IN /\ IF had # {}
          THEN \E i \in had : userIps' = [userIps EXCEPT ![i].lastUsed = now]
          ELSE \E i \in LinkIds :
                  /\ ~userIps[i].exists
                  /\ userIps' = [userIps EXCEPT ![i] =
                                    [exists |-> TRUE, userId |-> u,
                                     ipAddress |-> ip, recordedAt |-> now,
                                     lastUsed |-> now]]
       /\ Cardinality({i \in LinkIds : /\ userIps'[i].exists
                                        /\ userIps'[i].userId = u
                                        /\ userIps'[i].ipAddress = ip}) =
             IF had = {} THEN 1 ELSE Cardinality(had)

\* the touchLink call that answers success in this step, as <<userId, ip>>
TouchAnswered == ipSent'.op = "touchLink" /\ ipSent'.status = 200

----------------------------------------------------------------------------
(* touchLink under concurrency *)

\* the calls for the pair (u, ip) that have written
WrittenFor(u, ip) ==
    {c \in Callers : touch[c].pc = "done" /\ touch[c].userId = u /\ touch[c].ip = ip}

NumLinks == Cardinality({i \in LinkIds : userIps[i].exists})

\* C28: the lookup of a touchLink call misses exactly when the pair has no
\* link at the time of the lookup; its write, which comes later, creates a
\* link exactly when the lookup missed; nothing else changes the link table;
\* so a pair never has more links than calls that wrote for it: two calls
\* create at most two. (That two calls can create two is the witness.)
C28_TouchRace ==
    [][/\ \A c \in Callers :
             /\ (touch[c].pc = "idle" /\ touch'[c].pc = "write") =>
                   /\ (touch'[c].found = 0) =
                         (LinksOfPair(touch'[c].userId, touch'[c].ip) = {})
                   /\ userIps' = userIps
             /\ (touch[c].pc = "write" /\ touch'[c].pc = "done") =>
                   NumLinks' = IF touch[c].found = 0 THEN NumLinks + 1 ELSE NumLinks
       /\ userIps' # userIps =>
             \E c \in Callers : touch[c].pc = "write" /\ touch'[c].pc = "done"
       /\ \A u \in Users, ip \in Ips :
             Cardinality(LinksOfPair(u, ip)') <= Cardinality(WrittenFor(u, ip)')]_vars

\* both lookups missed and both calls created a link: two links for one pair
C28_Witness ==
    \E u \in Users, ip \in Ips :
       /\ Cardinality(LinksOfPair(u, ip)) = 2
       /\ \A c \in {1, 2} : /\ touch[c].pc = "done" /\ touch[c].found = 0
                            /\ touch[c].userId = u /\ touch[c].ip = ip

----------------------------------------------------------------------------
(* The step of the rate window *)

\* C29: a request of a key with no window, or whose window has elapsed,
\* starts a new window with count 1 and is allowed, also when the budget of
\* the previous window was used up; inside a live window the request raises
\* the count by one, leaves the start of the window alone, and is allowed if
\* and only if the new count is at most the budget.
C29_WindowStep ==
    [][\A a \in ClientKeys :
          (gate'.route # "none" /\ gate'.key = a) =>
             LET win == rateStore["general"][a]
                 after == rateStore'["general"][a]
             IN IF ~win.exists \/ now - win.windowStart >= RateW
                THEN /\ after = [exists |-> TRUE, windowStart |-> now, count |-> 1]
                     /\ gate'.general = "allow"
                ELSE /\ after = [win EXCEPT !.count = win.count + 1]
                     /\ (gate'.general = "allow") = (win.count + 1 <= RateM)
                     /\ gate'.general \in {"allow", "deny"}]_vars

\* a key that used up its budget in the first window is allowed again by the
\* first request after the window elapsed
C29_Witness ==
    /\ gate.key = "a" /\ gate.general = "allow"
    /\ now >= RateW
    /\ rateStore["general"]["a"] = [exists |-> TRUE, windowStart |-> now, count |-> 1]
    /\ admitted["a"][0] = RateM

----------------------------------------------------------------------------
(* What the chat handler writes *)

\* the handler of slot r takes this step
ChatStepOf(r) == pc'[r] # pc[r] \/ sent'.slot = r

\* C30: a step of the chat handler changes nothing of the store but the
\* messagesUsed field of the user document of the authenticated caller, and
\* that only in the step that answers 200; a request answered with any other
\* status has written nothing.
C30_ChatWritesOwnCounterOnly ==
    [][\A r \in Reqs : ChatStepOf(r) =>
          LET uid == VerifyIdToken(req[r].token)
          IN /\ UNCHANGED <<accounts, licenses, ipBans, userIps, aiConfig, adminLogs>>
             /\ users' # users =>
                   /\ pc[r] = "update" /\ sent'.status = 200
                   /\ uid \in Users
                   /\ users' = [users EXCEPT ![uid].messagesUsed =
                                   users'[uid].messagesUsed]
             /\ sent'.status \notin {0, 200} => users' = users]_vars

\* the caller u2 got its answer and its own counter was raised; the document
\* of u1 is as it was
C30_Witness ==
    /\ sent.status = 200 /\ sent.wrote /\ sent.token = "t2"
    /\ users["u2"] = [exists |-> TRUE, messagesUsed |-> 1,
                      messagesLimit |-> DefaultLimit, banned |-> FALSE]
    /\ users["u1"] = [exists |-> TRUE, messagesUsed |-> 0,
                      messagesLimit |-> DefaultLimit, banned |-> FALSE]

----------------------------------------------------------------------------
(* Rate limiter *)

RECURSIVE AdmittedIn(_, _, _)
\* requests of key a admitted at the times lo..hi
AdmittedIn(a, lo, hi) ==
    IF lo > hi \/ lo > RateMaxTime THEN 0
    ELSE admitted[a][lo] + AdmittedIn(a, lo + 1, hi)

\* requests of key a admitted in the span of length RateW that starts at t
SpanAdmitted(a, t) == AdmittedIn(a, t, t + RateW - 1)

\* C9 as stated: the limiter admits at most RateM requests of a key in any
\* span of length RateW, spans that straddle a window boundary included.
C9_AtMostMInAnySpan ==
    \A a \in ClientKeys, t \in 0..RateMaxTime : SpanAdmitted(a, t) <= RateM

\* C9 amended: the limiter admits at most RateM requests of a key in any one
\* window (the span of length RateW from the window's start); an arbitrary
\* span of length RateW, which may straddle a window boundary, holds at most
\* 2 * RateM - 1 admitted requests.
C9_AtMostMPerWindow ==
    \A a \in ClientKeys :
       /\ rateStore["general"][a].exists =>
             SpanAdmitted(a, rateStore["general"][a].windowStart) <= RateM
       /\ \A t \in 0..RateMaxTime : SpanAdmitted(a, t) <= 2 * RateM - 1

\* a span that straddles a window boundary holds more than RateM admitted
\* requests, while the window that is open holds RateM
C9_Witness ==
    \E t \in 0..RateMaxTime :
       /\ SpanAdmitted("a", t) = 2 * RateM - 1
       /\ rateStore["general"]["a"].windowStart > t
       /\ SpanAdmitted("a", rateStore["general"]["a"].windowStart) = RateM

\* C10: a request to an admin route reaches its handler only if the general
\* limiter (GeneralMax per WindowMs) and the admin limiter (AdminMax per
\* WindowMs) both admitted it; each limiter decides on its own window: a
\* request to another route leaves the admin windows alone, and the general
\* verdict and window follow from the general window alone.
C10_BothLimitersAdmit ==
    [][\A a \in ClientKeys : (gate'.route # "none" /\ gate'.key = a) =>
          LET g == Admit(rateStore["general"][a], now, WindowMs, GeneralMax)
              ad == Admit(rateStore["admin"][a], now, WindowMs, AdminMax)
          IN /\ gate'.general = Verdict(g.allowed)
             /\ rateStore'["general"][a] = g.window
             /\ gate'.route \in AdminRoutes =>
                   /\ gate'.reached =>
                         /\ g.allowed /\ gate'.general = "allow"
                         /\ ad.allowed /\ gate'.admin = "allow"
                   /\ g.allowed => rateStore'["admin"][a] = ad.window
             /\ gate'.route \notin AdminRoutes =>
                   /\ rateStore'["admin"] = rateStore["admin"]
                   /\ gate'.reached = g.allowed]_vars

\* a request to an admin route was stopped by the admin limiter although the
\* general limiter admitted it
C10_Witness ==
    /\ gate.route \in AdminRoutes
    /\ gate.general = "allow" /\ gate.admin = "deny" /\ ~gate.reached
    /\ rateStore["admin"]["a"].count = AdminMax + 1
    /\ rateStore["general"]["a"].count <= GeneralMax

----------------------------------------------------------------------------
(* The stored counter against the stored limit *)

\* C31: when the stored messagesUsed of a user starts at or below the stored
\* messagesLimit (0 included) and nothing but chat requests of that user
\* runs, the stored messagesUsed stays at or below the stored messagesLimit.
C31_StoredUsedWithinLimit ==
    used0 <= U1.messagesLimit => U1.messagesUsed <= U1.messagesLimit

----------------------------------------------------------------------------
(* resetMessages against a chat request in flight *)

\* the last moderation call answered was a successful resetMessages
ResetReturned == adminSent.op = "resetMessages" /\ adminSent.success

\* C32: once resetMessages has returned success, the stored messagesUsed is
\* at most the number of completions of requests that read the counter after
\* the reset; that number is at most the completions served in all, which is
\* the bound taken here.
C32_ResetNotUndone == ResetReturned => U1.messagesUsed <= completions

----------------------------------------------------------------------------
(* banUser against the chat handler *)

\* C33: a chat request that reads the user document while banned is set (the
\* ban was written and no unban since) is answered 403 without a provider call
\* and without a change of messagesUsed; a request is answered AccountBanned
\* only when the document it read has banned set.
C33_BannedReadRejected ==
    [][/\ (GateStep(1) /\ GateDoc(1).exists /\ GateDoc(1).banned)
            => \/ RejectedWith(1, 403, "AccountBanned")
               \/ RejectedWith(1, 403, "QuotaExceeded")
       /\ (GateStep(1) /\ sent'.kind = "AccountBanned") => GateDoc(1).banned]_vars

\* a request of the user was served, banUser returned, and a request of that
\* user that read the document afterwards was answered AccountBanned: one
\* completion and one credit, those of the request before the ban
C33_Witness ==
    /\ adminSent.op = "banUser" /\ adminSent.success
    /\ U1.banned
    /\ sent.token = "t1" /\ sent.status = 403 /\ sent.kind = "AccountBanned"
    /\ completions = 1 /\ U1.messagesUsed = used0 + 1

----------------------------------------------------------------------------
(* Order of the checks of the chat handler *)

\* slot r answers in this step with the given status and error, returns, and
\* neither the provider was called nor the store written
StopsWith(r, status, kind) ==
    /\ sent' = Reply(r, status, kind) \/ (kind = "QuotaExceeded" /\ sent'.slot = r)
    /\ sent'.status = status /\ sent'.kind = kind
    /\ pc'[r] = "idle"
    /\ users' = users /\ completions' = completions

\* C34: the chat handler stops at the first check that fails, in the order
\* body (400), credential (401, the user document not yet read), existence of
\* the user document (404), quota as the handler reads it (403), ban (403),
\* model allow-list (400), provider key (500); the provider is called only
\* by a request that passed them all, and a request whose model is not
\* allow-listed never reaches the provider call nor the increment.
C34_ChecksInOrder ==
    [][/\ (pc[1] = "idle" /\ sent'.slot = 1) => StopsWith(1, 400, "InvalidBody")
       /\ (pc[1] = "verify" /\ pc'[1] # "verify") =>
             IF VerifyIdToken(req[1].token) = ""
             THEN StopsWith(1, 401, "Unauthorized")
             ELSE pc'[1] = "getUser" /\ sent' = NoResp
       /\ GateStep(1) =>
             LET doc == GateDoc(1)
                 quota == ReadUsed(doc) >= ReadLimit(doc)
                 model == req[1].model \in AllowedModels
             IN CASE ~doc.exists -> StopsWith(1, 404, "NotFound")
                  [] doc.exists /\ quota -> StopsWith(1, 403, "QuotaExceeded")
                  [] doc.exists /\ ~quota /\ doc.banned ->
                        StopsWith(1, 403, "AccountBanned")
                  [] doc.exists /\ ~quota /\ ~doc.banned /\ ~model ->
                        StopsWith(1, 400, "ModelNotAllowed")
                  [] doc.exists /\ ~quota /\ ~doc.banned /\ model /\ ~apiKeySet ->
                        StopsWith(1, 500, "NoApiKey")
                  [] OTHER -> pc'[1] = "fetch" /\ sent' = NoResp /\ users' = users
       /\ pc'[1] \in {"fetch", "update"} =>
             /\ pc[1] \in {"getUser", "fetch", "update"}
             /\ VerifyIdToken(req'[1].token) # ""
             /\ req'[1].model \in AllowedModels
             /\ apiKeySet]_vars

\* a request with a model outside the allow-list and no provider key
\* configured, from a user with credits who is not banned, was answered 400
\* for the model: that check comes before the key's
C34_Witness ==
    /\ sent.slot = 1 /\ sent.status = 400 /\ sent.kind = "ModelNotAllowed"
    /\ ~apiKeySet /\ U1.exists /\ ~U1.banned
    /\ U1.messagesUsed = 0 /\ U1.messagesLimit = 2 /\ completions = 0

----------------------------------------------------------------------------
(* Outcomes of the provider call *)

\* the provider call of slot 1 settles in this step as a non-2xx response or
\* as a body that does not parse: an error response, no completion counted,
\* nothing written
ProviderErrorStep ==
    (pc[1] = "fetch" /\ sent'.kind \in {"non2xx", "malformed"}) =>
       /\ sent'.slot = 1 /\ sent'.status >= 400 /\ sent'.content = ""
       /\ pc'[1] = "idle"
       /\ users' = users /\ completions' = completions

\* the handler of slot 1 answers after a 2xx response
AnswerStep == pc[1] = "update" /\ pc'[1] = "idle"

\* it does so after a 2xx response whose completion was empty
EmptyCompletionStep == AnswerStep /\ rd[1].content = Placeholder

\* the stored counter of the caller of slot 1 rises by exactly one
OneCreditConsumed ==
    LET uid == VerifyIdToken(req[1].token)
    IN users' = [users EXCEPT ![uid].messagesUsed = users[uid].messagesUsed + 1]

\* C35 as stated: a non-2xx response and a malformed body each give an error
\* response and consume no credit; a 2xx response with an empty completion
\* gives 200 with the placeholder content, never an empty one, and consumes
\* exactly one credit.
C35_EmptyCompletionConsumesOne ==
    [][/\ ProviderErrorStep
       /\ AnswerStep => sent'.status = 200 /\ sent'.content # ""
       /\ EmptyCompletionStep =>
             /\ sent'.status = 200 /\ sent'.content = Placeholder
             /\ OneCreditConsumed]_vars

\* C35 amended: a non-2xx response and a malformed body each give an error
\* response and consume no credit; a 2xx response with an empty completion
\* gives 200 with the placeholder content, never an empty one, and consumes
\* exactly one credit when the increment write succeeds, none when that
\* write is rejected.
C35_ProviderOutcomes ==
    [][/\ ProviderErrorStep
       /\ AnswerStep => sent'.status = 200 /\ sent'.content # ""
       /\ EmptyCompletionStep =>
             /\ sent'.status = 200 /\ sent'.content = Placeholder
             /\ IF sent'.wrote THEN OneCreditConsumed ELSE users' = users]_vars

\* an empty completion was answered with the placeholder and one credit
C35_Witness ==
    /\ sent.slot = 1 /\ sent.status = 200 /\ sent.content = Placeholder
    /\ sent.wrote /\ completions = 1
    /\ U1.messagesUsed = used0 + 1

----------------------------------------------------------------------------
(* The store handles *)

----------------------------------------------------------------------------
(* Validation of the IP endpoints *)

\* the body names an address, a cap and a user as the endpoints want them
AddressGiven(b) == b.ipAddress \in {"ip1", "ip2"}

CapGiven(b) == \E n \in 1..10 : b.maxAccounts = [whole |-> n, frac |-> FALSE]

UserGiven(b) ==
    LET shape == UserIdShape(b.userId)
    IN shape.alnum /\ shape.len \in 20..40

\* an IP endpoint answers in this step
IpAnswer == ipSent'.op \in {"checkBan", "checkLimit", "recordLink", "touchLink"}

\* C36: on the four IP endpoints a body whose ipAddress is no IP address,
\* whose maxAccounts is no integer in 1..10 or whose userId is not 20 to 40
\* alphanumeric characters is rejected by the schema of the endpoint; a 400
\* answer leaves the store, the call in flight and the handles as they were,
\* initialised or not, and every other answer is for an address, a cap and a
\* user of the right form.
C36_ValidationFailsClosed ==
    /\ \A b \in CheckIPBanBodies : ~AddressGiven(b) => ~CheckIPBanSchema(b)
    /\ \A b \in CheckIPLimitBodies :
          (~AddressGiven(b) \/ ~CapGiven(b)) => ~CheckIPLimitSchema(b)
    /\ \A b \in RecordUserIPBodies :
          (~AddressGiven(b) \/ ~UserGiven(b)) => ~RecordUserIPSchema(b)
    /\ \A b \in UpdateUserIPLoginBodies :
          (~AddressGiven(b) \/ ~UserGiven(b)) => ~UpdateUserIPLoginSchema(b)
    /\ [][/\ (IpAnswer /\ ipSent'.status = 400) =>
                 UNCHANGED <<ipBans, userIps, ipCall, dbReady, fbAdmin>>
          /\ (IpAnswer /\ ipSent'.status # 400) =>
                 /\ ipSent'.ip \in {"ip1", "ip2"}
                 /\ ipSent'.op = "checkLimit" => ipSent'.maxAccounts \in 1..10
                 /\ ipSent'.op \in {"recordLink", "touchLink"} =>
                       UserIdShape(ipSent'.userId).len \in 20..40]_vars

\* a malformed request to check-ip-limit was answered 400 while the store
\* was not initialised, after a failed initialisation
C36_Witness ==
    /\ ~dbReady /\ fbAdmin.runs >= 1 /\ fbAdmin.adminDb = 0
    /\ ipSent.op = "checkLimit" /\ ipSent.status = 400
    /\ \A i \in LinkIds : ~userIps[i].exists

----------------------------------------------------------------------------
(* The IP endpoints without the store *)

HandlesNull == fbAdmin.adminDb = 0 \/ fbAdmin.adminAuth = 0

\* C37: while the store handles are not set, check-ip-limit, record-user-ip
\* and update-user-ip-login answer every well-formed request with success and
\* leave the store alone: accountCount = 0 and isLimitExceeded = false
\* whatever the address and the cap; no link exists before the handles are
\* set, and setting them creates none.
C37_UninitialisedAnswersSuccess ==
    [][/\ (HandlesNull /\ ipSent'.status # 400
             /\ ipSent'.op \in {"checkLimit", "recordLink", "touchLink"}) =>
             /\ ipSent'.status = 200
             /\ userIps' = userIps
             /\ ipSent'.op = "checkLimit" =>
                   ipSent'.accountCount = 0 /\ ~ipSent'.isLimitExceeded
       /\ HandlesNull => \A i \in LinkIds : ~userIps[i].exists
       /\ fbAdmin' # fbAdmin => userIps' = userIps]_vars

\* record-user-ip answered success for u1 at ip2 while the handles were null,
\* and no link exists
C37_Witness ==
    /\ HandlesNull /\ ~dbReady
    /\ ipSent.op = "recordLink" /\ ipSent.status = 200
    /\ ipSent.userId = "u1" /\ ipSent.ip = "ip2"
    /\ \A i \in LinkIds : ~userIps[i].exists

====
